---- MODULE Spec2Model ----
(***************************************************************************)
(* md2pdf: Markdown + LaTeX math to HTML/PDF.                              *)
(*                                                                         *)
(* Specification Spec: MarkdownLatexRenderer — the math span extractor     *)
(* (processMathExpressions), the engine adapter (renderMath) and render's  *)
(* placeholder substitution.                                               *)
(* Specification SpecReady: MarkdownToPdfConverter.waitForPageReady.       *)
(* Specification SpecConv: MarkdownToPdfConverter — convert, generatePdf,  *)
(* createPage, closePage, close, convertBatch and the browser they drive.  *)
(* Specification SpecStyle: style options from handleConvert or render      *)
(* through normalizeNumericOptions, processStyleOptions and getCssStyles.  *)
(* Specification SpecProgress: convert calls with a progress callback.     *)
(* Specification SpecMerge: the callers that merge files into a temporary  *)
(* file and convert it.                                                    *)
(* Specification SpecConc: two concurrent convert calls on one converter.  *)
(* Specification SpecWarn: the renderers and the console.warn they patch.  *)
(*                                                                         *)
(* A text is a sequence of characters.  Every character is a record        *)
(* [c, o]: c is the character itself, o a history tag that the program     *)
(* does not have: o > 0 is the index of the character in the input text,   *)
(* o < 0 marks a placeholder character inserted by the extractor for the   *)
(* span with id -o-1, o = 0 marks any other generated character.  No       *)
(* operator that models code reads the tag.                                *)
(***************************************************************************)
EXTENDS Integers, Sequences, FiniteSets, TLC

VARIABLES
    content,            \* render's argument: the Markdown text
    mathEngine,         \* styleOptions.mathEngine
    pc,                 \* position inside render
    processedContent,   \* text with placeholders
    mathExpressions,    \* the spans: [type, content, placeholder]
    spanSrc,            \* history: per span, the pass that made it and the matched source
    html,               \* render's html variable
    idx,                \* index of the next span the substitution loop handles
    rm,                 \* the last renderMath call: arguments, engine outcomes, result
    subst,              \* history: per handled span, where html.replace found its placeholder
    \* waitForPageReady
    wpc,                \* position inside waitForPageReady
    cond,               \* the page: per wait condition, whether and how its promise settles
    hasKatexEval,       \* the page: outcome of the `.katex` query
    warned,             \* the console.warn calls made
    \* MarkdownToPdfConverter
    browser,            \* this.browser: 0 is null, otherwise the id of a launched browser
    reuseInstance,      \* this.reuseInstance
    openPages,          \* this.openPages
    ctorReuse,          \* history: reuseInstance as the constructor set it
    browserState,       \* puppeteer: per browser id "none", "running", "disconnected", "closed"
    pageState,          \* puppeteer: per page id "none", "open", or how it was closed
    pageBrowser,        \* puppeteer: the browser a page belongs to
    calls,              \* the convert calls: position, locals and pending exception
    batch,              \* the convertBatch call
    closer,             \* the close() call
    ops,                \* number of calls the caller has made
    progressCallback,   \* this.progressCallback
    \* the callers that merge Markdown files
    merge,              \* the merge caller: position, temporary file, pending error
    \* the renderers and the global they patch
    consoleWarn,        \* console.warn: 0 is the function of the runtime, i the filter
                        \* installed by renderer i
    renderers,          \* per renderer: "none", "live" or "cleaned", and originalConsoleWarn
    \* style options
    styleSrc,           \* where the options come from: "cli" (handleConvert) or "api" (render)
    styleIn,            \* the options as the user gave them
    stylePc,            \* position on the path from the options to the CSS
    styleOpts,          \* the options as they are handed on
    css                 \* the declarations getCssStyles generated

rvars == <<content, mathEngine, pc, processedContent, mathExpressions, spanSrc,
           html, idx, rm, subst>>

wvars == <<wpc, cond, hasKatexEval, warned>>

cvars == <<browser, reuseInstance, openPages, ctorReuse, browserState, pageState,
           pageBrowser, calls, batch, closer, ops, progressCallback>>

svars == <<styleSrc, styleIn, stylePc, styleOpts, css>>

mvars == <<merge>>

nvars == <<consoleWarn, renderers>>

vars == <<rvars, wvars, cvars, svars, mvars, nvars>>

----------------------------------------------------------------------------
(* Characters and strings *)

Ch(s) == [c |-> s, o |-> 0]

Lit(t) == [i \in 1..Len(t) |-> Ch(t[i])]

Tagged(t, tag) == [i \in 1..Len(t) |-> [c |-> t[i], o |-> tag]]

Chars(t) == [i \in 1..Len(t) |-> t[i].c]

MinOf(S) == CHOOSE x \in S : \A y \in S : x <= y

\* d (plain characters) occurs in t at position p
StartsAt(t, p, d) ==
    /\ p >= 1
    /\ p + Len(d) - 1 <= Len(t)
    /\ \A k \in 1..Len(d) : t[p + k - 1].c = d[k]

\* String.prototype.indexOf(d, p): first position >= p, 0 when there is none
IndexOf(t, p, d) ==
    LET S == {q \in p..Len(t) : StartsAt(t, q, d)}
    IN  IF S = {} THEN 0 ELSE MinOf(S)

WhiteSpace == {" ", "\n", "\t"}

\* String.prototype.trim
Trim(t) ==
    LET NonWs == {i \in 1..Len(t) : t[i].c \notin WhiteSpace}
    IN  IF NonWs = {} THEN <<>>
        ELSE SubSeq(t, MinOf(NonWs), CHOOSE x \in NonWs : \A y \in NonWs : y <= x)

DigitChar == <<"0", "1", "2", "3", "4", "5", "6", "7", "8", "9">>

RECURSIVE Digits(_)
Digits(n) ==
    IF n < 10 THEN <<DigitChar[n + 1]>>
    ELSE Digits(n \div 10) \o <<DigitChar[(n % 10) + 1]>>

----------------------------------------------------------------------------
(* config.js *)

DOLLAR == <<"$">>
DDOLLAR == <<"$", "$">>
LBRACK == <<"\\", "[">>
RBRACK == <<"\\", "]">>
LPAREN == <<"\\", "(">>
RPAREN == <<"\\", ")">>

\* MATH_DELIMITERS with the inline loop run before the block loop
MATH_DELIMITERS_InlineFirst ==
    << [open |-> DOLLAR,  close |-> DOLLAR,  block |-> FALSE],
       [open |-> LPAREN,  close |-> RPAREN,  block |-> FALSE],
       [open |-> DDOLLAR, close |-> DDOLLAR, block |-> TRUE],
       [open |-> LBRACK,  close |-> RBRACK,  block |-> TRUE] >>

\* MATH_DELIMITERS.block followed by MATH_DELIMITERS.inline, in pass order
MATH_DELIMITERS ==
    << [open |-> DDOLLAR, close |-> DDOLLAR, block |-> TRUE],
       [open |-> LBRACK,  close |-> RBRACK,  block |-> TRUE],
       [open |-> DOLLAR,  close |-> DOLLAR,  block |-> FALSE],
       [open |-> LPAREN,  close |-> RPAREN,  block |-> FALSE] >>

MATH_ENGINE == {"auto", "katex", "mathjax"}

DEFAULT_MATH_ENGINE == "auto"

----------------------------------------------------------------------------
(* processMathExpressions *)

NoMatch == [s |-> 0, cs |-> 0, ce |-> 0, e |-> 0]

\* new RegExp(escapeRegExp(startDelim) + '([\s\S]*?)' + escapeRegExp(endDelim), 'g'),
\* next match at or after pos: leftmost opening that has a closing, lazy content
DelimMatch(t, pos, sd, ed) ==
    LET Closes == {q \in pos..Len(t) : StartsAt(t, q, ed)}
        Opens  == {p \in pos..Len(t) :
                      /\ StartsAt(t, p, sd)
                      /\ \E q \in Closes : q >= p + Len(sd)}
    IN  IF Opens = {} THEN NoMatch
        ELSE LET p == MinOf(Opens)
                 q == MinOf({x \in Closes : x >= p + Len(sd)})
             IN  [s |-> p, cs |-> p + Len(sd), ce |-> q - 1, e |-> q + Len(ed) - 1]

IsDollar(t, i) == i >= 1 /\ i <= Len(t) /\ t[i].c = "$"

\* /(?<!\$)\$(?!\$)([\s\S]*?)\$(?!\$)/g, next match at or after pos
DollarMatch(t, pos) ==
    LET Closes == {q \in pos..Len(t) : IsDollar(t, q) /\ ~IsDollar(t, q + 1)}
        Opens  == {p \in pos..Len(t) :
                      /\ IsDollar(t, p)
                      /\ ~IsDollar(t, p - 1)
                      /\ ~IsDollar(t, p + 1)
                      /\ \E q \in Closes : q >= p + 1}
    IN  IF Opens = {} THEN NoMatch
        ELSE LET p == MinOf(Opens)
                 q == MinOf({x \in Closes : x >= p + 1})
             IN  [s |-> p, cs |-> p + 1, ce |-> q - 1, e |-> q]

\* the regex of pass k: the inline loop special-cases the pair ('$', '$')
NextMatch(k, t, pos) ==
    IF /\ ~MATH_DELIMITERS[k].block
       /\ MATH_DELIMITERS[k].open = DOLLAR
       /\ MATH_DELIMITERS[k].close = DOLLAR
    THEN DollarMatch(t, pos)
    ELSE DelimMatch(t, pos, MATH_DELIMITERS[k].open, MATH_DELIMITERS[k].close)

PH_PREFIX == <<"<", "!", "-", "-", "M", "A", "T", "H", "_">>
PH_BLOCK == <<"B", "L", "O", "C", "K", "_">>
PH_INLINE == <<"I", "N", "L", "I", "N", "E", "_">>
PH_SUFFIX == <<"-", "-", ">">>

\* `<!--MATH_BLOCK_${n}-->` / `<!--MATH_INLINE_${n}-->`
Placeholder(isBlock, n) ==
    PH_PREFIX \o (IF isBlock THEN PH_BLOCK ELSE PH_INLINE) \o Digits(n) \o PH_SUFFIX

\* SpanOf with the inline loop's callback used in the block loop too: the type
\* is decided by the newline test alone
SpanOf_InlineCallback(k, mathContent, n) ==
    LET isBlock == \E i \in 1..Len(mathContent) : mathContent[i].c = "\n"
    IN  [type |-> IF isBlock THEN "block" ELSE "inline",
         content |-> Trim(mathContent),
         placeholder |-> Placeholder(isBlock, n)]

\* the replace callback: the span pushed for a match of pass k
SpanOf(k, mathContent, n) ==
    LET isBlock == IF MATH_DELIMITERS[k].block THEN TRUE
                   ELSE \E i \in 1..Len(mathContent) : mathContent[i].c = "\n"
    IN  [type |-> IF isBlock THEN "block" ELSE "inline",
         content |-> Trim(mathContent),
         placeholder |-> Placeholder(isBlock, n)]

\* ReplacePass that resumes the scan at the closing delimiter of the last match
\* instead of after it
RECURSIVE ReplacePass_Rescan(_, _, _, _)
ReplacePass_Rescan(k, t, pos, acc) ==
    LET m == NextMatch(k, t, pos)
    IN  IF m.s = 0
        THEN [acc EXCEPT !.out = acc.out \o SubSeq(t, pos, Len(t))]
        ELSE LET n == Len(acc.exprs)
                 span == SpanOf(k, SubSeq(t, m.cs, m.ce), n)
             IN  ReplacePass_Rescan(k, t, m.ce + 1,
                     [out   |-> acc.out \o SubSeq(t, pos, m.s - 1)
                                        \o Tagged(span.placeholder, -(n + 1)),
                      exprs |-> Append(acc.exprs, span),
                      src   |-> Append(acc.src,
                                    [pass |-> k, match |-> SubSeq(t, m.s, m.e),
                                     txt |-> t, s |-> m.s, e |-> m.e])])

\* processedContent.replace(regex, callback) of pass k, from position pos on;
\* acc = [out: the text built so far, exprs: mathExpressions, src: history: per
\* span its pass, the matched text, the text the pass scanned and the first and
\* last position of the match in it]
RECURSIVE ReplacePass(_, _, _, _)
ReplacePass(k, t, pos, acc) ==
    LET m == NextMatch(k, t, pos)
    IN  IF m.s = 0
        THEN [acc EXCEPT !.out = acc.out \o SubSeq(t, pos, Len(t))]
        ELSE LET n == Len(acc.exprs)
                 span == SpanOf(k, SubSeq(t, m.cs, m.ce), n)
             IN  ReplacePass(k, t, m.e + 1,
                     [out   |-> acc.out \o SubSeq(t, pos, m.s - 1)
                                        \o Tagged(span.placeholder, -(n + 1)),
                      exprs |-> Append(acc.exprs, span),
                      src   |-> Append(acc.src,
                                    [pass |-> k, match |-> SubSeq(t, m.s, m.e),
                                     txt |-> t, s |-> m.s, e |-> m.e])])

\* the four passes in order: $$..$$, \[..\], $..$, \(..\)
RECURSIVE RunPasses(_, _)
RunPasses(k, acc) ==
    IF k > Len(MATH_DELIMITERS) THEN acc
    ELSE RunPasses(k + 1,
             ReplacePass(k, acc.out, 1, [acc EXCEPT !.out = <<>>]))

processMathExpressions(text) ==
    RunPasses(1, [out |-> text, exprs |-> <<>>, src |-> <<>>])

----------------------------------------------------------------------------
(* renderMath *)

K_OPEN == "<span class=\"katex\">"
K_CLOSE == "</span>"
MJX_OPEN == "<mjx-container>"
MJX_CLOSE == "</mjx-container>"

\* both engines emit the TeX source as escaped text nodes inside their markup
EscapeChar(ch) ==
    IF ch.c = "<" THEN [ch EXCEPT !.c = "&lt;"]
    ELSE IF ch.c = ">" THEN [ch EXCEPT !.c = "&gt;"]
    ELSE IF ch.c = "&" THEN [ch EXCEPT !.c = "&amp;"]
    ELSE ch

\* katex.renderToString(content, {throwOnError: true, displayMode}) when it succeeds
KatexMarkup(tex, displayMode) ==
    <<Ch(K_OPEN)>> \o [i \in 1..Len(tex) |-> EscapeChar(tex[i])] \o <<Ch(K_CLOSE)>>

\* renderTeXToCHTML(texSource, display).html when MathJax succeeds
MathJaxMarkup(tex, display) ==
    <<Ch(MJX_OPEN)>> \o [i \in 1..Len(tex) |-> EscapeChar(tex[i])] \o <<Ch(MJX_CLOSE)>>

\* displayMode ? `$$${content}$$` : `$${content}$`
RawTeX(tex, displayMode) ==
    IF displayMode THEN Lit(DDOLLAR) \o tex \o Lit(DDOLLAR)
    ELSE Lit(DOLLAR) \o tex \o Lit(DOLLAR)

\* renderMath without the MathJax fallback: a KaTeX failure returns the raw TeX
renderMath_NoFallback(tex, displayMode, engine, katexFails, mathjaxFails) ==
    IF engine = "mathjax"
    THEN IF mathjaxFails
         THEN [threw |-> TRUE, html |-> <<>>, calls |-> <<"mathjax">>]
         ELSE [threw |-> FALSE, html |-> MathJaxMarkup(tex, displayMode),
               calls |-> <<"mathjax">>]
    ELSE IF ~katexFails
         THEN [threw |-> FALSE, html |-> KatexMarkup(tex, displayMode),
               calls |-> <<"katex">>]
         ELSE [threw |-> FALSE, html |-> RawTeX(tex, displayMode),
               calls |-> <<"katex">>]

\* renderMath(content, displayMode, mathEngine); katexFails / mathjaxFails say
\* whether katex.renderToString / renderTeXToCHTML throws on this content.
\* Result: threw, the returned html, and the engines that were invoked.
renderMath(tex, displayMode, engine, katexFails, mathjaxFails) ==
    IF engine = "mathjax"
    THEN IF mathjaxFails
         THEN [threw |-> TRUE, html |-> <<>>, calls |-> <<"mathjax">>]
         ELSE [threw |-> FALSE, html |-> MathJaxMarkup(tex, displayMode),
               calls |-> <<"mathjax">>]
    ELSE IF ~katexFails
         THEN [threw |-> FALSE, html |-> KatexMarkup(tex, displayMode),
               calls |-> <<"katex">>]
         ELSE IF ~mathjaxFails
              THEN [threw |-> FALSE, html |-> MathJaxMarkup(tex, displayMode),
                    calls |-> <<"katex", "mathjax">>]
              ELSE [threw |-> FALSE, html |-> RawTeX(tex, displayMode),
                    calls |-> <<"katex", "mathjax">>]

----------------------------------------------------------------------------
(* render *)

\* this.md.render(processedContent): html: true lets the comment placeholders
\* through; the text becomes a paragraph
MdRender(t) == <<Ch("<p>")>> \o t \o <<Ch("</p>"), Ch("\n")>>

generateMathHtml(renderedMath, isBlock) ==
    IF isBlock
    THEN <<Ch("<div class=\"math-block\">")>> \o renderedMath \o <<Ch("</div>")>>
    ELSE <<Ch("<span class=\"math-inline\">")>> \o renderedMath \o <<Ch("</span>")>>

\* the replacement-string patterns of String.prototype.replace with a string
\* pattern: $$ -> $, $& -> the match, $` -> the text before, $' -> the text after
RECURSIVE ExpandReplacement(_, _, _, _, _)
ExpandReplacement(repl, i, matched, before, after) ==
    IF i > Len(repl) THEN <<>>
    ELSE IF repl[i].c = "$" /\ i < Len(repl) /\ repl[i + 1].c \in {"$", "&", "`", "'"}
         THEN (CASE repl[i + 1].c = "$" -> <<repl[i]>>
                 [] repl[i + 1].c = "&" -> matched
                 [] repl[i + 1].c = "`" -> before
                 [] repl[i + 1].c = "'" -> after)
              \o ExpandReplacement(repl, i + 2, matched, before, after)
         ELSE <<repl[i]>> \o ExpandReplacement(repl, i + 1, matched, before, after)

\* html.replace(placeholder, mathHtml): the first occurrence only
JsReplace(h, pattern, repl) ==
    LET p == IndexOf(h, 1, pattern)
    IN  IF p = 0 THEN h
        ELSE LET before == SubSeq(h, 1, p - 1)
                 matched == SubSeq(h, p, p + Len(pattern) - 1)
                 after == SubSeq(h, p + Len(pattern), Len(h))
             IN  before \o ExpandReplacement(repl, 1, matched, before, after) \o after

\* generateHtmlDocument(html, title, options): the body inside the template
generateHtmlDocument(body) ==
    <<Ch("<!DOCTYPE html><html><head></head><body>")>> \o body \o <<Ch("</body></html>")>>

----------------------------------------------------------------------------
(* Input texts *)

MaxPieces == 3

Pieces ==
    {DOLLAR, DDOLLAR, LBRACK, RBRACK, LPAREN, RPAREN,
     <<"x">>, <<" ">>, <<"\n">>, Placeholder(TRUE, 0)}

RECURSIVE TextsUpTo(_)
TextsUpTo(n) ==
    IF n = 0 THEN {<<>>}
    ELSE LET S == TextsUpTo(n - 1)
         IN  S \cup {t \o p : t \in S, p \in Pieces}

\* `$$a+b$$`
ExDelimPrecedence == DDOLLAR \o <<"a", "+", "b">> \o DDOLLAR
\* `$ x $`
ExInnerSpace == DOLLAR \o <<" ", "x", " ">> \o DOLLAR
\* `\[ $$x$$ \]`
ExNested == LBRACK \o <<" ">> \o DDOLLAR \o <<"x">> \o DDOLLAR \o <<" ">> \o RBRACK
\* `<!--MATH_BLOCK_0--> $$x$$`
ExCollision == Placeholder(TRUE, 0) \o <<" ">> \o DDOLLAR \o <<"x">> \o DDOLLAR

\* `The value $x$ solves $$x^2=4$$.`
ExMixed ==
    <<"T", "h", "e", " ", "v", "a", "l", "u", "e", " ">> \o DOLLAR \o <<"x">> \o DOLLAR
    \o <<" ", "s", "o", "l", "v", "e", "s", " ">>
    \o DDOLLAR \o <<"x", "^", "2", "=", "4">> \o DDOLLAR \o <<".">>
\* `Price is $5 and $10`
ExPrice ==
    <<"P", "r", "i", "c", "e", " ", "i", "s", " ">> \o DOLLAR
    \o <<"5", " ", "a", "n", "d", " ">> \o DOLLAR \o <<"1", "0">>
\* `$a$ $b$`
ExTwoInline == DOLLAR \o <<"a">> \o DOLLAR \o <<" ">> \o DOLLAR \o <<"b">> \o DOLLAR

Examples == {ExDelimPrecedence, ExInnerSpace, ExNested, ExCollision,
             ExMixed, ExPrice, ExTwoInline}

InputTexts == TextsUpTo(MaxPieces) \cup Examples

\* the input text, every character tagged with its index
Indexed(t) == [i \in 1..Len(t) |-> [c |-> t[i], o |-> i]]

----------------------------------------------------------------------------
(* Specification Spec: one call of render(content, styleOptions) *)

\* no renderMath call has been made
MaxOps == 2
MaxJobs == 3
MaxPages == 3
MaxBrowsers == 2

Pages == 1..MaxPages
Browsers == 1..MaxBrowsers

\* the convert calls that can be in flight: the caller awaits each call
Slots == {1}

\* a convert call that has not started
\* (reads, wrote, launched, phases are history: the fs.readFile calls made,
\* whether an output file was written, whether the call launched a browser, the
\* phases the call passed to the progress callback)
IdleCall == [pc |-> "idle", owner |-> "none", fmt |-> "pdf", page |-> 0, b |-> 0,
             created |-> 0, err |-> "none", failedAt |-> "none",
             reads |-> 0, wrote |-> FALSE, launched |-> FALSE, phases |-> <<>>]

\* a progress callback: whether one is installed and the phases on which the
\* installed function throws
NullCallback == [installed |-> FALSE, throwsOn |-> {}]

Callback(throwsOn) == [installed |-> TRUE, throwsOn |-> throwsOn]

\* a convertBatch call that has not started
\* (started, resolvedJobs, jobErr, before are history: the convert calls the
\* batch has made, how many of them resolved, the error of the one that was
\* rejected, the pages that were open when the batch was called)
IdleBatch == [pc |-> "idle", n |-> 0, i |-> 0, err |-> "none",
              started |-> 0, resolvedJobs |-> 0, jobErr |-> "none", before |-> {}]

IdleCloser == [pc |-> "idle", caller |-> "none", visited |-> {}, cur |-> 0, b |-> 0,
               err |-> "none"]

MaxRenderers == 3

Renderers == 1..MaxRenderers

\* a merge caller that has not started
IdleMerge == [caller |-> "none", pc |-> "idle", temp |-> "none", err |-> "none",
              unlinkFailed |-> FALSE]

\* no merge caller is part of the run
MergeIdle == merge = IdleMerge

\* a renderer that has not been constructed
NoRenderer == [state |-> "none", originalConsoleWarn |-> 0]

\* console.warn is not patched
WarnIdle ==
    /\ consoleWarn = 0
    /\ renderers = [i \in Renderers |-> NoRenderer]

\* no converter is part of the run
ConvIdle ==
    /\ MergeIdle
    /\ WarnIdle
    /\ browser = 0
    /\ reuseInstance = TRUE
    /\ openPages = {}
    /\ ctorReuse = TRUE
    /\ browserState = [b \in Browsers |-> "none"]
    /\ pageState = [p \in Pages |-> "none"]
    /\ pageBrowser = [p \in Pages |-> 0]
    /\ calls = [c \in Slots |-> IdleCall]
    /\ batch = IdleBatch
    /\ closer = IdleCloser
    /\ ops = 0
    /\ progressCallback = NullCallback

NoCall == [called |-> FALSE, content |-> <<>>, displayMode |-> FALSE,
           engine |-> "auto", katexFails |-> FALSE, mathjaxFails |-> FALSE,
           result |-> [threw |-> FALSE, html |-> <<>>, calls |-> <<>>]]

\* the renderer is not part of the run
RendererIdle ==
    /\ content = <<>>
    /\ mathEngine = "auto"
    /\ pc = "idle"
    /\ processedContent = <<>>
    /\ mathExpressions = <<>>
    /\ spanSrc = <<>>
    /\ html = <<>>
    /\ idx = 0
    /\ rm = NoCall
    /\ subst = <<>>

\* no style options are part of the run
StyleIdle ==
    /\ styleSrc = "none"
    /\ styleIn = <<>>
    /\ stylePc = "idle"
    /\ styleOpts = <<>>
    /\ css = <<>>

\* no page is being waited for
ReadyIdle ==
    /\ wpc = "idle"
    /\ cond = <<>>
    /\ hasKatexEval = "false"
    /\ warned = {}

Init ==
    /\ content \in {Indexed(t) : t \in InputTexts}
    /\ mathEngine \in MATH_ENGINE
    /\ pc = "start"
    /\ processedContent = <<>>
    /\ mathExpressions = <<>>
    /\ spanSrc = <<>>
    /\ html = <<>>
    /\ idx = 0
    /\ rm = NoCall
    /\ subst = <<>>
    /\ ReadyIdle
    /\ ConvIdle
    /\ StyleIdle

\* render, step 1: processMathExpressions(content)
Extract ==
    /\ pc = "start"
    /\ LET r == processMathExpressions(content)
       IN  /\ processedContent' = r.out
           /\ mathExpressions' = r.exprs
           /\ spanSrc' = r.src
    /\ pc' = "extracted"
    /\ UNCHANGED <<content, mathEngine, html, idx, rm, subst, wvars, cvars, svars, mvars, nvars>>

\* render, step 2: html = this.md.render(processedContent)
RenderMarkdown ==
    /\ pc = "extracted"
    /\ html' = MdRender(processedContent)
    /\ idx' = 1
    /\ pc' = "subst"
    /\ UNCHANGED <<content, mathEngine, processedContent, mathExpressions, spanSrc, rm, subst,
                   wvars, cvars, svars, mvars, nvars>>

\* history: which engine produced the markup of a renderMath call that returned
EngineUsed(r, mathjaxFails) ==
    IF r.calls = <<"katex">> THEN "Primary"
    ELSE IF ~mathjaxFails THEN "Secondary"
    ELSE "RawFallback"

\* render, step 3: one iteration of `for (const expr of mathExpressions)`
Substitute ==
    /\ pc = "subst"
    /\ idx <= Len(mathExpressions)
    /\ \E katexFails \in BOOLEAN, mathjaxFails \in BOOLEAN :
         LET expr == mathExpressions[idx]
             isBlock == expr.type = "block"
             r == renderMath(expr.content, isBlock, mathEngine, katexFails, mathjaxFails)
             at == IndexOf(html, 1, expr.placeholder)
         IN  /\ rm' = [called |-> TRUE, content |-> expr.content, displayMode |-> isBlock,
                       engine |-> mathEngine, katexFails |-> katexFails,
                       mathjaxFails |-> mathjaxFails, result |-> r]
             /\ IF r.threw
                THEN /\ pc' = "threw"
                     /\ UNCHANGED <<html, idx, subst>>
                ELSE /\ html' = JsReplace(html, expr.placeholder,
                                          generateMathHtml(r.html, isBlock))
                     /\ idx' = idx + 1
                     /\ subst' = Append(subst,
                            [at |-> at,
                             own |-> /\ at # 0
                                     /\ \A k \in 0..(Len(expr.placeholder) - 1) :
                                            html[at + k].o = -idx,
                             engineUsed |-> EngineUsed(r, mathjaxFails)])
                     /\ pc' = "subst"
    /\ UNCHANGED <<content, mathEngine, processedContent, mathExpressions, spanSrc, wvars, cvars, svars, mvars, nvars>>

\* render, steps 4-5: the document is assembled and returned
Finish ==
    /\ pc = "subst"
    /\ idx > Len(mathExpressions)
    /\ html' = generateHtmlDocument(html)
    /\ pc' = "done"
    /\ UNCHANGED <<content, mathEngine, processedContent, mathExpressions, spanSrc,
                   idx, rm, subst, wvars, cvars, svars, mvars, nvars>>

Next == Extract \/ RenderMarkdown \/ Substitute \/ Finish

Spec == Init /\ [][Next]_vars

----------------------------------------------------------------------------
(* Properties of the renderer (specification Spec) *)

\* the source text of span i in the input: from its opening to its closing delimiter
OriginalSource(i) ==
    LET m == spanSrc[i].match
    IN  SubSeq(content, m[1].o, m[Len(m)].o)

IsHtmlComment(h) ==
    /\ StartsAt(h, 1, <<"<", "!", "-", "-">>)
    /\ Len(h) >= 7
    /\ StartsAt(h, Len(h) - 2, <<"-", "-", ">">>)

\* C1: renderMath never throws and always returns a markup string, for every
\* engine selector and every combination of KaTeX and MathJax failing.
C1_RenderMathNeverThrows ==
    rm.called => ~rm.result.threw

C3_RawFallbackVerbatim ==
    pc = "done" =>
        \A i \in 1..Len(subst) :
            subst[i].engineUsed = "RawFallback" =>
                IndexOf(html, 1, Chars(OriginalSource(i))) # 0

\* the text t with the placeholder inserted for span i replaced by the span's
\* content in the delimiters of the pass that extracted it
Resubstitute(t, i) ==
    LET P == {p \in 1..Len(t) : t[p].o = -i}
        d == MATH_DELIMITERS[spanSrc[i].pass]
    IN  IF P = {} THEN t
        ELSE SubSeq(t, 1, MinOf(P) - 1)
             \o Lit(d.open) \o mathExpressions[i].content \o Lit(d.close)
             \o SubSeq(t, MinOf(P) + Cardinality(P), Len(t))

RECURSIVE ResubstituteFrom(_, _)
ResubstituteFrom(t, i) ==
    IF i = 0 THEN t ELSE ResubstituteFrom(Resubstitute(t, i), i - 1)

\* C4: round trip: replacing every placeholder by its span's content in its
\* original delimiters reproduces the input text exactly.
C4_RoundTrip ==
    pc # "start" =>
        Chars(ResubstituteFrom(processedContent, Len(mathExpressions))) = Chars(content)

\* the input positions of the two opening and two closing characters of a match
DelimOrigins(m) == {m[1].o, m[2].o, m[Len(m) - 1].o, m[Len(m)].o}

Origins(t) == {t[i].o : i \in 1..Len(t)}

\* C5: `$$a+b$$` gives exactly one span, of type block with content `a+b`; and
\* for every closed `$$...$$` pair the block pass consumes both delimiters: none
\* of their characters stays in the rewritten text or is part of a span of the
\* single-`$` pass.
C5_DelimiterPrecedence ==
    pc # "start" =>
        /\ Chars(content) = ExDelimPrecedence =>
              /\ Len(mathExpressions) = 1
              /\ mathExpressions[1].type = "block"
              /\ Chars(mathExpressions[1].content) = <<"a", "+", "b">>
              /\ mathExpressions[1].placeholder = Placeholder(TRUE, 0)
        /\ \A i \in 1..Len(spanSrc) :
              spanSrc[i].pass = 1 =>
                  /\ DelimOrigins(spanSrc[i].match) \cap Origins(processedContent) = {}
                  /\ \A j \in 1..Len(spanSrc) :
                        spanSrc[j].pass = 3 =>
                            DelimOrigins(spanSrc[i].match) \cap Origins(spanSrc[j].match) = {}

\* C5 witness: `$$a+b$$` has been extracted
C5_Witness ==
    /\ pc = "extracted"
    /\ Chars(content) = ExDelimPrecedence
    /\ Len(mathExpressions) = 1
    /\ spanSrc[1].pass = 1

\* a placeholder of some extracted span occurs in t
PlaceholderLeft(t) ==
    \E i \in 1..Len(mathExpressions) : IndexOf(t, 1, mathExpressions[i].placeholder) # 0

\* C6: render substitutes every extracted span exactly once: every span's
\* placeholder was found and replaced, and none remains in the document.
C6_SubstitutedExactlyOnce ==
    pc = "done" =>
        /\ \A i \in 1..Len(subst) : subst[i].at # 0
        /\ ~PlaceholderLeft(html)

\* C7: span ids are distinct and increasing, a placeholder occurs in the
\* rewritten text only where the extractor inserted it, and the substitution
\* replaces the occurrence the extractor inserted.
C7_PlaceholderUnique ==
    pc # "start" =>
        /\ \A i \in 1..Len(mathExpressions) :
              /\ mathExpressions[i].placeholder \in
                    {Placeholder(TRUE, i - 1), Placeholder(FALSE, i - 1)}
              /\ \A p \in 1..Len(processedContent) :
                    StartsAt(processedContent, p, mathExpressions[i].placeholder) =>
                        \A k \in 0..(Len(mathExpressions[i].placeholder) - 1) :
                            processedContent[p + k].o = -i
        /\ \A i \in 1..Len(subst) : subst[i].at # 0 => subst[i].own

----------------------------------------------------------------------------
(* Specification SpecReady: one call of waitForPageReady(page)              *)
(*                                                                         *)
(* createPage sets page.setDefaultTimeout(0), so page.waitForFunction has  *)
(* no timeout: its promise resolves when the predicate holds, rejects when *)
(* the evaluation fails, and otherwise stays pending.  The page is given   *)
(* by how each wait condition's promise behaves:                           *)
(*   "met"   the condition holds, the promise resolves                     *)
(*   "later" the condition does not hold yet but will (PageProgress)       *)
(*   "never" the condition never holds, the promise never settles          *)
(*   "error" the promise rejects                                           *)
(***************************************************************************)

BasicChecks == {"images", "fonts", "animations"}

Conditions == BasicChecks \cup {"katex", "idle"}

ConditionStatus == {"met", "later", "never", "error"}

Settled(c) == cond[c] \in {"met", "error"}

InitReady ==
    /\ RendererIdle
    /\ wpc = "checks"
    /\ cond \in [Conditions -> ConditionStatus]
    /\ hasKatexEval \in {"true", "false", "error"}
    /\ warned = {}
    /\ ConvIdle
    /\ StyleIdle

\* the page: an image finishes loading, an animation finishes, the idle callback fires
PageProgress(c) ==
    /\ wpc # "returned"
    /\ cond[c] = "later"
    /\ cond' = [cond EXCEPT ![c] = "met"]
    /\ UNCHANGED <<wpc, hasKatexEval, warned, rvars, cvars, svars, mvars, nvars>>

\* await Promise.allSettled(checks): every check has its own .catch, which warns
AwaitBasicChecks ==
    /\ wpc = "checks"
    /\ \A c \in BasicChecks : Settled(c)
    /\ warned' = warned \cup {c \in BasicChecks : cond[c] = "error"}
    /\ wpc' = "hasKatex"
    /\ UNCHANGED <<cond, hasKatexEval, rvars, cvars, svars, mvars, nvars>>

\* const hasKatex = await page.evaluate(...); a rejection goes to the outer catch
EvaluateHasKatex ==
    /\ wpc = "hasKatex"
    /\ IF hasKatexEval = "error"
       THEN /\ warned' = warned \cup {"outer"}
            /\ wpc' = "returned"
       ELSE /\ warned' = warned
            /\ wpc' = IF hasKatexEval = "true" THEN "katex" ELSE "idle"
    /\ UNCHANGED <<cond, hasKatexEval, rvars, cvars, svars, mvars, nvars>>

\* if (hasKatex) await page.waitForFunction(...).catch(...)
AwaitKatex ==
    /\ wpc = "katex"
    /\ Settled("katex")
    /\ warned' = IF cond["katex"] = "error" THEN warned \cup {"katex"} ELSE warned
    /\ wpc' = "idle"
    /\ UNCHANGED <<cond, hasKatexEval, rvars, cvars, svars, mvars, nvars>>

\* await page.evaluate(() => new Promise(resolve => requestIdleCallback(resolve)));
\* a rejection goes to the outer catch; then waitForPageReady returns
AwaitIdle ==
    /\ wpc = "idle"
    /\ Settled("idle")
    /\ warned' = IF cond["idle"] = "error" THEN warned \cup {"outer"} ELSE warned
    /\ wpc' = "returned"
    /\ UNCHANGED <<cond, hasKatexEval, rvars, cvars, svars, mvars, nvars>>

NextReady ==
    \/ \E c \in Conditions : PageProgress(c)
    \/ AwaitBasicChecks
    \/ EvaluateHasKatex
    \/ AwaitKatex
    \/ AwaitIdle

SpecReady == InitReady /\ [][NextReady]_vars /\ WF_vars(NextReady)

\* C8: waitForPageReady always returns, whatever the page does: a wait
\* condition that fails or stays unmet degrades to proceeding.  Stated as: as
\* long as waitForPageReady has not returned, it or the page can take a step.
C8_WaitAlwaysReturns ==
    wpc # "returned" => ENABLED NextReady

----------------------------------------------------------------------------
(* Specification SpecConv: one MarkdownToPdfConverter and its caller.      *)
(*                                                                         *)
(* The caller makes up to MaxOps calls (convert, convertBatch, close), one *)
(* after the other.  Every await is a step; every awaited call of fs,      *)
(* the renderer or puppeteer either resolves or rejects.  A page can be    *)
(* closed by the browser itself and a browser can lose its connection.     *)
(***************************************************************************)

IsClosed(p) == pageState[p] \notin {"none", "open"}

IsConnected(b) == browserState[b] = "running"

SettledCall(c) == calls[c].pc \in {"idle", "resolved", "rejected"}

\* the caller is not inside any call
Quiet ==
    /\ \A c \in Slots : SettledCall(c)
    /\ batch.pc \in {"idle", "resolved", "rejected"}
    /\ closer.pc \in {"idle", "done", "failed"}

\* puppeteer: closing a browser closes its pages
PagesAfterBrowserClose(b) ==
    [p \in Pages |-> IF pageBrowser[p] = b /\ pageState[p] = "open"
                     THEN "closedWithBrowser" ELSE pageState[p]]

InitConv ==
    /\ RendererIdle
    /\ ReadyIdle
    /\ StyleIdle
    /\ browser = 0
    /\ reuseInstance \in BOOLEAN
    /\ ctorReuse = reuseInstance
    /\ openPages = {}
    /\ browserState = [b \in Browsers |-> "none"]
    /\ pageState = [p \in Pages |-> "none"]
    /\ pageBrowser = [p \in Pages |-> 0]
    /\ calls = [c \in Slots |-> IdleCall]
    /\ batch = IdleBatch
    /\ closer = IdleCloser
    /\ ops = 0
    /\ progressCallback = NullCallback
    /\ MergeIdle
    /\ WarnIdle

Frame == UNCHANGED <<rvars, wvars, svars, ctorReuse, progressCallback, mvars, nvars>>

\* if (this.progressCallback) this.progressCallback(phase, {...}): the call r
\* after the callback was invoked
Report(r, phase) ==
    IF progressCallback.installed THEN [r EXCEPT !.phases = Append(@, phase)] ELSE r

\* the invocation of the callback throws
CallbackThrows(phase) ==
    progressCallback.installed /\ phase \in progressCallback.throwsOn

\* Catch that rethrows without reporting the error phase
Catch_Silent(r, e) == [r EXCEPT !.pc = "rejected", !.err = e]

\* convert's catch block: report the error phase and rethrow; an exception of
\* the callback leaves the block in place of the caught one
Catch(r, e) ==
    [Report(r, "error") EXCEPT !.pc = "rejected",
                               !.err = IF CallbackThrows("error") THEN "callback" ELSE e]

\* a progress report inside convert's try block, then on to position next; an
\* exception of the callback is caught by convert's catch block
Step(r, phase, next) ==
    IF CallbackThrows(phase) THEN Catch(Report(r, phase), "callback")
    ELSE [Report(r, phase) EXCEPT !.pc = next]

\* an exception reaches convert's catch block
Reject(c, e) == Catch(calls[c], e)

\* an exception inside generatePdf's try block: remembered while finally runs
Throw(c, e) == [calls[c] EXCEPT !.pc = "finally", !.err = e, !.failedAt = e]

\* the caller calls convert({input, output, format})
CallConvert(c, fmt) ==
    /\ Quiet
    /\ ops < MaxOps
    /\ ops' = ops + 1
    /\ calls' = [calls EXCEPT ![c] =
                    Step([IdleCall EXCEPT !.owner = "user", !.fmt = fmt],
                         "reading_file", "read")]
    /\ batch' = IdleBatch
    /\ closer' = IdleCloser
    /\ UNCHANGED <<browser, reuseInstance, openPages, browserState, pageState, pageBrowser>>
    /\ Frame

\* await fs.readFile(input, 'utf-8')
ReadFile(c) ==
    /\ calls[c].pc = "read"
    /\ \E ok \in BOOLEAN :
         calls' = [calls EXCEPT ![c] =
                      IF ok THEN Step([@ EXCEPT !.reads = @ + 1], "rendering_html", "render")
                      ELSE [Reject(c, "readFile") EXCEPT !.failedAt = "readFile",
                                                         !.reads = @ + 1]]
    /\ UNCHANGED <<browser, reuseInstance, openPages, browserState, pageState, pageBrowser,
                   batch, closer, ops>>
    /\ Frame

\* RenderHtml without the final `throw new Error('Unsupported format')`: every
\* format other than html takes the PDF branch
RenderHtml_FormatUnchecked(c) ==
    /\ calls[c].pc = "render"
    /\ \E ok \in BOOLEAN :
         calls' = [calls EXCEPT ![c] =
                      IF ~ok THEN [Reject(c, "render") EXCEPT !.failedAt = "render"]
                      ELSE IF @.fmt = "html" THEN Step(@, "saving_html", "writeHtml")
                      ELSE Step(@, "generating_pdf", "getBrowser")]
    /\ UNCHANGED <<browser, reuseInstance, openPages, browserState, pageState, pageBrowser,
                   batch, closer, ops>>
    /\ Frame

\* await this.renderer.render(markdownContent, styleOptions), then the format branch
RenderHtml(c) ==
    /\ calls[c].pc = "render"
    /\ \E ok \in BOOLEAN :
         calls' = [calls EXCEPT ![c] =
                      IF ~ok THEN [Reject(c, "render") EXCEPT !.failedAt = "render"]
                      ELSE IF @.fmt = "html" THEN Step(@, "saving_html", "writeHtml")
                      ELSE IF @.fmt = "pdf" THEN Step(@, "generating_pdf", "getBrowser")
                      ELSE [Reject(c, "format") EXCEPT !.failedAt = "format"]]
    /\ UNCHANGED <<browser, reuseInstance, openPages, browserState, pageState, pageBrowser,
                   batch, closer, ops>>
    /\ Frame

\* await fs.writeFile(outputPath, html, 'utf-8'); return outputPath
WriteHtml(c) ==
    /\ calls[c].pc = "writeHtml"
    /\ \E ok \in BOOLEAN :
         calls' = [calls EXCEPT ![c] =
                      IF ok THEN Step([@ EXCEPT !.wrote = TRUE], "completed", "resolved")
                      ELSE [Reject(c, "writeFile") EXCEPT !.failedAt = "writeFile"]]
    /\ UNCHANGED <<browser, reuseInstance, openPages, browserState, pageState, pageBrowser,
                   batch, closer, ops>>
    /\ Frame

\* getBrowser: if (!this.browser || this.browser.isConnected() === false) launch
GetBrowser(c) ==
    /\ calls[c].pc = "getBrowser"
    /\ calls' = [calls EXCEPT ![c] =
                    IF browser = 0 \/ ~IsConnected(browser)
                    THEN [@ EXCEPT !.pc = "launching"]
                    ELSE [@ EXCEPT !.pc = "newPage", !.b = browser]]
    /\ UNCHANGED <<browser, reuseInstance, openPages, browserState, pageState, pageBrowser,
                   batch, closer, ops>>
    /\ Frame

\* this.browser = await puppeteer.launch(BROWSER_CONFIG)
Launch(c) ==
    /\ calls[c].pc = "launching"
    /\ \/ \E nb \in Browsers :
            /\ browserState[nb] = "none"
            /\ \A x \in Browsers : x < nb => browserState[x] # "none"
            /\ browserState' = [browserState EXCEPT ![nb] = "running"]
            /\ browser' = nb
            /\ calls' = [calls EXCEPT ![c] = [@ EXCEPT !.pc = "newPage", !.b = nb,
                                                        !.launched = TRUE]]
       \/ /\ calls' = [calls EXCEPT ![c] = Throw(c, "launch")]
          /\ UNCHANGED <<browser, browserState>>
    /\ UNCHANGED <<reuseInstance, openPages, pageState, pageBrowser, batch, closer, ops>>
    /\ Frame

\* const page = await browser.newPage()
NewPage(c) ==
    /\ calls[c].pc = "newPage"
    /\ \/ \E np \in Pages :
            /\ IsConnected(calls[c].b)
            /\ pageState[np] = "none"
            /\ \A x \in Pages : x < np => pageState[x] # "none"
            /\ pageState' = [pageState EXCEPT ![np] = "open"]
            /\ pageBrowser' = [pageBrowser EXCEPT ![np] = calls[c].b]
            /\ calls' = [calls EXCEPT ![c] = [@ EXCEPT !.pc = "setup", !.created = np]]
       \/ /\ calls' = [calls EXCEPT ![c] = Throw(c, "newPage")]
          /\ UNCHANGED <<pageState, pageBrowser>>
    /\ UNCHANGED <<browser, reuseInstance, openPages, browserState, batch, closer, ops>>
    /\ Frame

\* createPage: await page.setRequestInterception(true); await page.setViewport(...);
\* this.openPages.add(page); return page
SetupPage(c) ==
    /\ calls[c].pc = "setup"
    /\ \/ /\ pageState[calls[c].created] = "open"
          /\ openPages' = openPages \cup {calls[c].created}
          /\ calls' = [calls EXCEPT ![c] = [@ EXCEPT !.pc = "setContent",
                                                      !.page = calls[c].created]]
       \/ /\ calls' = [calls EXCEPT ![c] = Throw(c, "setup")]
          /\ UNCHANGED openPages
    /\ UNCHANGED <<browser, reuseInstance, browserState, pageState, pageBrowser,
                   batch, closer, ops>>
    /\ Frame

\* await page.setContent(html, ...)
SetContent(c) ==
    /\ calls[c].pc = "setContent"
    /\ \/ /\ pageState[calls[c].page] = "open"
          /\ calls' = [calls EXCEPT ![c] = [@ EXCEPT !.pc = "waitReady"]]
       \/ calls' = [calls EXCEPT ![c] = Throw(c, "setContent")]
    /\ UNCHANGED <<browser, reuseInstance, openPages, browserState, pageState, pageBrowser,
                   batch, closer, ops>>
    /\ Frame

\* await this.waitForPageReady(page): it catches every rejection
WaitReady(c) ==
    /\ calls[c].pc = "waitReady"
    /\ calls' = [calls EXCEPT ![c] = [@ EXCEPT !.pc = "pdf"]]
    /\ UNCHANGED <<browser, reuseInstance, openPages, browserState, pageState, pageBrowser,
                   batch, closer, ops>>
    /\ Frame

\* await page.pdf({path: outputPath, ...})
ExportPdf(c) ==
    /\ calls[c].pc = "pdf"
    /\ \/ /\ pageState[calls[c].page] = "open"
          /\ calls' = [calls EXCEPT ![c] = [@ EXCEPT !.pc = "finally", !.wrote = TRUE]]
       \/ calls' = [calls EXCEPT ![c] = Throw(c, "pdf")]
    /\ UNCHANGED <<browser, reuseInstance, openPages, browserState, pageState, pageBrowser,
                   batch, closer, ops>>
    /\ Frame

\* generatePdf's finally, closePage(page): if (page && !page.isClosed()) page.close()
FinallyClosePage(c) ==
    /\ calls[c].pc = "finally"
    /\ calls' = [calls EXCEPT ![c] =
                    IF @.page # 0 /\ ~IsClosed(@.page)
                    THEN [@ EXCEPT !.pc = "closingPage"]
                    ELSE [@ EXCEPT !.pc = "finallyBrowser"]]
    /\ UNCHANGED <<browser, reuseInstance, openPages, browserState, pageState, pageBrowser,
                   batch, closer, ops>>
    /\ Frame

\* closePage: await page.close(); this.openPages.delete(page).  A rejection leaves
\* the finally block and replaces the pending exception.
PageCloseSettles(c) ==
    /\ calls[c].pc = "closingPage"
    /\ \/ /\ pageState' = [pageState EXCEPT ![calls[c].page] =
                              IF @ = "open" THEN "closed" ELSE @]
          /\ openPages' = openPages \ {calls[c].page}
          /\ calls' = [calls EXCEPT ![c] = [@ EXCEPT !.pc = "finallyBrowser"]]
       \/ /\ calls' = [calls EXCEPT ![c] = Reject(c, "pageClose")]
          /\ UNCHANGED <<pageState, openPages>>
    /\ UNCHANGED <<browser, reuseInstance, browserState, pageBrowser, batch, closer, ops>>
    /\ Frame

\* the end of generatePdf: the pending exception is rethrown into convert's catch
\* block, or convert reports the completed phase and returns
Settle(c) ==
    IF calls[c].err = "none" THEN Step(calls[c], "completed", "resolved")
    ELSE Catch(calls[c], calls[c].err)

\* generatePdf's finally: if (!this.reuseInstance && this.browser) this.browser.close()
FinallyCloseBrowser(c) ==
    /\ calls[c].pc = "finallyBrowser"
    /\ calls' = [calls EXCEPT ![c] =
                    IF ~reuseInstance /\ browser # 0
                    THEN [@ EXCEPT !.pc = "closingBrowser", !.b = browser]
                    ELSE Settle(c)]
    /\ UNCHANGED <<browser, reuseInstance, openPages, browserState, pageState, pageBrowser,
                   batch, closer, ops>>
    /\ Frame

\* await this.browser.close(); this.browser = null
BrowserCloseSettles(c) ==
    /\ calls[c].pc = "closingBrowser"
    /\ \/ /\ browserState' = [browserState EXCEPT ![calls[c].b] = "closed"]
          /\ pageState' = PagesAfterBrowserClose(calls[c].b)
          /\ browser' = 0
          /\ calls' = [calls EXCEPT ![c] = Settle(c)]
       \/ /\ calls' = [calls EXCEPT ![c] = Reject(c, "browserClose")]
          /\ UNCHANGED <<browser, browserState, pageState>>
    /\ UNCHANGED <<reuseInstance, openPages, pageBrowser, batch, closer, ops>>
    /\ Frame

----------------------------------------------------------------------------
(* close() *)

StartClose(who) == [IdleCloser EXCEPT !.pc = "loop", !.caller = who]

\* the caller calls close()
CallClose ==
    /\ Quiet
    /\ ops < MaxOps
    /\ ops' = ops + 1
    /\ closer' = StartClose("user")
    /\ calls' = [c \in Slots |-> IdleCall]
    /\ batch' = IdleBatch
    /\ UNCHANGED <<browser, reuseInstance, openPages, browserState, pageState, pageBrowser>>
    /\ Frame

\* for (const page of this.openPages) await this.closePage(page); after the loop
\* this.renderer.cleanup() and if (this.browser) this.browser.close()
CloseLoop ==
    /\ closer.pc = "loop"
    /\ LET rest == openPages \ closer.visited
       IN  closer' =
               IF rest = {}
               THEN IF browser # 0
                    THEN [closer EXCEPT !.pc = "closingBrowser", !.b = browser]
                    ELSE [closer EXCEPT !.pc = "done"]
               ELSE LET p == MinOf(rest)
                    IN  IF IsClosed(p)
                        THEN [closer EXCEPT !.visited = @ \cup {p}]
                        ELSE [closer EXCEPT !.visited = @ \cup {p}, !.cur = p,
                                            !.pc = "closingPage"]
    /\ UNCHANGED <<browser, reuseInstance, openPages, browserState, pageState, pageBrowser,
                   calls, batch, ops>>
    /\ Frame

\* closePage inside close(): await page.close(); this.openPages.delete(page)
ClosePageSettles ==
    /\ closer.pc = "closingPage"
    /\ \/ /\ pageState' = [pageState EXCEPT ![closer.cur] =
                              IF @ = "open" THEN "closed" ELSE @]
          /\ openPages' = openPages \ {closer.cur}
          /\ closer' = [closer EXCEPT !.pc = "loop"]
       \/ /\ closer' = [closer EXCEPT !.pc = "failed", !.err = "pageClose"]
          /\ UNCHANGED <<pageState, openPages>>
    /\ UNCHANGED <<browser, reuseInstance, browserState, pageBrowser, calls, batch, ops>>
    /\ Frame

\* close(): await this.browser.close(); this.browser = null
CloseBrowserSettles ==
    /\ closer.pc = "closingBrowser"
    /\ \/ /\ browserState' = [browserState EXCEPT ![closer.b] = "closed"]
          /\ pageState' = PagesAfterBrowserClose(closer.b)
          /\ browser' = 0
          /\ closer' = [closer EXCEPT !.pc = "done"]
       \/ /\ closer' = [closer EXCEPT !.pc = "failed", !.err = "browserClose"]
          /\ UNCHANGED <<browser, browserState, pageState>>
    /\ UNCHANGED <<reuseInstance, openPages, pageBrowser, calls, batch, ops>>
    /\ Frame

----------------------------------------------------------------------------
(* convertBatch *)

\* the caller calls convertBatch(conversions) with n jobs: this.reuseInstance = true
CallBatch(n) ==
    /\ Quiet
    /\ ops < MaxOps
    /\ ops' = ops + 1
    /\ reuseInstance' = TRUE
    /\ batch' = [IdleBatch EXCEPT !.pc = "loop", !.n = n, !.i = 1,
                                  !.before = {p \in Pages : pageState[p] = "open"}]
    /\ calls' = [c \in Slots |-> IdleCall]
    /\ closer' = IdleCloser
    /\ UNCHANGED <<browser, openPages, browserState, pageState, pageBrowser>>
    /\ Frame

\* for (const conversion of conversions) await this.convert({format: 'pdf', ...});
\* after the last job the finally block calls this.close()
BatchNext ==
    /\ batch.pc = "loop"
    /\ IF batch.i <= batch.n
       THEN /\ calls' = [calls EXCEPT ![1] =
                            Step([IdleCall EXCEPT !.owner = "batch"],
                                 "reading_file", "read")]
            /\ batch' = [batch EXCEPT !.pc = "await", !.started = @ + 1]
            /\ UNCHANGED closer
       ELSE /\ closer' = StartClose("batch")
            /\ batch' = [batch EXCEPT !.pc = "closing"]
            /\ UNCHANGED calls
    /\ UNCHANGED <<browser, reuseInstance, openPages, browserState, pageState, pageBrowser,
                   ops>>
    /\ Frame

\* the awaited convert settles: the next job, or the exception leaves the loop
\* and the finally block calls this.close()
BatchJobSettles ==
    /\ batch.pc = "await"
    /\ \/ /\ calls[1].pc = "resolved"
          /\ batch' = [batch EXCEPT !.pc = "loop", !.i = @ + 1, !.resolvedJobs = @ + 1]
          /\ UNCHANGED closer
       \/ /\ calls[1].pc = "rejected"
          /\ batch' = [batch EXCEPT !.pc = "closing", !.err = calls[1].err,
                                    !.jobErr = calls[1].err]
          /\ closer' = StartClose("batch")
    /\ UNCHANGED <<browser, reuseInstance, openPages, browserState, pageState, pageBrowser,
                   calls, ops>>
    /\ Frame

\* finally { await this.close() }: convertBatch settles
BatchCloseSettles ==
    /\ batch.pc = "closing"
    /\ \/ /\ closer.pc = "done"
          /\ batch' = [batch EXCEPT !.pc = IF batch.err = "none" THEN "resolved"
                                        ELSE "rejected"]
       \/ /\ closer.pc = "failed"
          /\ batch' = [batch EXCEPT !.pc = "rejected", !.err = closer.err]
    /\ UNCHANGED <<browser, reuseInstance, openPages, browserState, pageState, pageBrowser,
                   calls, closer, ops>>
    /\ Frame

----------------------------------------------------------------------------
(* The browser *)

\* a page is closed by the browser itself (the page crashes or closes its window)
PageClosedByBrowser(p) ==
    /\ ~Quiet
    /\ pageState[p] = "open"
    /\ pageState' = [pageState EXCEPT ![p] = "closedByBrowser"]
    /\ UNCHANGED <<browser, reuseInstance, openPages, browserState, pageBrowser,
                   calls, batch, closer, ops>>
    /\ Frame

\* the browser process exits or the connection to it drops
BrowserDisconnects(b) ==
    /\ ~Quiet
    /\ browserState[b] = "running"
    /\ browserState' = [browserState EXCEPT ![b] = "disconnected"]
    /\ pageState' = [p \in Pages |-> IF pageBrowser[p] = b /\ pageState[p] = "open"
                                     THEN "closedByBrowser" ELSE pageState[p]]
    /\ UNCHANGED <<browser, reuseInstance, openPages, pageBrowser,
                   calls, batch, closer, ops>>
    /\ Frame

NextConv ==
    \/ \E c \in Slots, fmt \in {"pdf", "html", "docx"} : CallConvert(c, fmt)
    \/ \E n \in 0..MaxJobs : CallBatch(n)
    \/ CallClose
    \/ \E c \in Slots :
          \/ ReadFile(c)
          \/ RenderHtml(c)
          \/ WriteHtml(c)
          \/ GetBrowser(c)
          \/ Launch(c)
          \/ NewPage(c)
          \/ SetupPage(c)
          \/ SetContent(c)
          \/ WaitReady(c)
          \/ ExportPdf(c)
          \/ FinallyClosePage(c)
          \/ PageCloseSettles(c)
          \/ FinallyCloseBrowser(c)
          \/ BrowserCloseSettles(c)
    \/ CloseLoop
    \/ ClosePageSettles
    \/ CloseBrowserSettles
    \/ BatchNext
    \/ BatchJobSettles
    \/ BatchCloseSettles
    \/ \E p \in Pages : PageClosedByBrowser(p)
    \/ \E b \in Browsers : BrowserDisconnects(b)

SpecConv == InitConv /\ [][NextConv]_vars

----------------------------------------------------------------------------
(* Specification SpecProgress: convert calls on a converter with a progress *)
(* callback, given to the constructor or installed by setProgressCallback. *)

Phases ==
    {"reading_file", "rendering_html", "saving_html", "generating_pdf", "completed", "error"}

\* the callbacks of the model: none, one that only observes, and functions that
\* throw when they are handed certain phases
ThrowSets == {{}, {"reading_file"}, {"completed"}, {"error"}, {"generating_pdf", "error"}}

Callbacks == {NullCallback} \cup {Callback(t) : t \in ThrowSets}

\* new MarkdownToPdfConverter({reuseInstance, progressCallback})
InitProgress ==
    /\ RendererIdle
    /\ ReadyIdle
    /\ StyleIdle
    /\ browser = 0
    /\ reuseInstance \in BOOLEAN
    /\ ctorReuse = reuseInstance
    /\ openPages = {}
    /\ browserState = [b \in Browsers |-> "none"]
    /\ pageState = [p \in Pages |-> "none"]
    /\ pageBrowser = [p \in Pages |-> 0]
    /\ calls = [c \in Slots |-> IdleCall]
    /\ batch = IdleBatch
    /\ closer = IdleCloser
    /\ ops = 0
    /\ progressCallback \in Callbacks
    /\ MergeIdle
    /\ WarnIdle

\* setProgressCallback(callback): this.progressCallback = callback.  (The call
\* of this.renderer.setProgressCallback that follows the assignment throws a
\* TypeError to the caller, the renderer has no such method; the assignment stays.)
SetProgressCallback(cb) ==
    /\ Quiet
    /\ ops < MaxOps
    /\ cb # progressCallback
    /\ ops' = ops + 1
    /\ progressCallback' = cb
    /\ calls' = [c \in Slots |-> IdleCall]
    /\ batch' = IdleBatch
    /\ closer' = IdleCloser
    /\ UNCHANGED <<browser, reuseInstance, openPages, browserState, pageState, pageBrowser>>
    /\ UNCHANGED <<rvars, wvars, svars, ctorReuse, mvars, nvars>>

NextProgress ==
    \/ \E cb \in Callbacks : SetProgressCallback(cb)
    \/ \E c \in Slots, fmt \in {"pdf", "html", "docx"} : CallConvert(c, fmt)
    \/ \E c \in Slots :
          \/ ReadFile(c)
          \/ RenderHtml(c)
          \/ WriteHtml(c)
          \/ GetBrowser(c)
          \/ Launch(c)
          \/ NewPage(c)
          \/ SetupPage(c)
          \/ SetContent(c)
          \/ WaitReady(c)
          \/ ExportPdf(c)
          \/ FinallyClosePage(c)
          \/ PageCloseSettles(c)
          \/ FinallyCloseBrowser(c)
          \/ BrowserCloseSettles(c)
    \/ \E p \in Pages : PageClosedByBrowser(p)
    \/ \E b \in Browsers : BrowserDisconnects(b)

SpecProgress == InitProgress /\ [][NextProgress]_vars

----------------------------------------------------------------------------
(* Specification SpecMerge: a caller that merges Markdown files into a      *)
(* temporary file and converts it: main of merge-md-to-pdf ("cli") or the   *)
(* /merge-convert handler of the merge GUI server ("gui").                  *)

\* the caller starts; its converter is constructed with reuseInstance: true
InitMerge ==
    /\ RendererIdle
    /\ ReadyIdle
    /\ StyleIdle
    /\ WarnIdle
    /\ browser = 0
    /\ reuseInstance = TRUE
    /\ ctorReuse = TRUE
    /\ openPages = {}
    /\ browserState = [b \in Browsers |-> "none"]
    /\ pageState = [p \in Pages |-> "none"]
    /\ pageBrowser = [p \in Pages |-> 0]
    /\ calls = [c \in Slots |-> IdleCall]
    /\ batch = IdleBatch
    /\ closer = IdleCloser
    /\ ops = 0
    /\ progressCallback = NullCallback
    /\ merge \in {[IdleMerge EXCEPT !.caller = who, !.pc = "start"] : who \in {"cli", "gui"}}

ConvFrame ==
    UNCHANGED <<browser, reuseInstance, openPages, ctorReuse, browserState, pageState,
                pageBrowser, batch, ops, rvars, wvars, svars, nvars>>

\* an exception inside the caller's try block: main goes to its catch block,
\* the handler's catch block answers with status 500
MergeCatch(e) ==
    IF merge.caller = "cli" THEN [merge EXCEPT !.pc = "catch", !.err = e]
    ELSE [merge EXCEPT !.pc = "responded", !.err = e]

\* fs.unlink(tempPath) inside try/catch: the file is removed, or the failure is
\* logged and swallowed
Unlink(m, ok) ==
    IF ok THEN [m EXCEPT !.temp = "deleted"] ELSE [m EXCEPT !.unlinkFailed = TRUE]

\* the files are found, sorted and merged: fs.stat, getMarkdownFiles and
\* mergeMarkdownFiles in main; the files of the request body and
\* mergeMarkdownFiles in the handler, which answers 400 when there is no file
MergeFiles ==
    /\ merge.pc = "start"
    /\ \E ok \in BOOLEAN :
          merge' = IF ok THEN [merge EXCEPT !.pc = "write"] ELSE MergeCatch("merge")
    /\ UNCHANGED <<calls, closer, progressCallback>>
    /\ ConvFrame

\* await fs.writeFile(tempPath, mergedContent, 'utf-8')
WriteTemp ==
    /\ merge.pc = "write"
    /\ \E ok \in BOOLEAN :
          merge' = IF ok THEN [merge EXCEPT !.pc = "convert", !.temp = "exists"]
                   ELSE MergeCatch("writeTemp")
    /\ UNCHANGED <<calls, closer, progressCallback>>
    /\ ConvFrame

\* main: new MarkdownToPdfConverter({reuseInstance: true}); await converter.convert(...)
MainConvert ==
    /\ merge.pc = "convert"
    /\ merge.caller = "cli"
    /\ calls' = [calls EXCEPT ![1] =
                    Step([IdleCall EXCEPT !.owner = "merge"], "reading_file", "read")]
    /\ merge' = [merge EXCEPT !.pc = "awaitConvert"]
    /\ UNCHANGED <<closer, progressCallback>>
    /\ ConvFrame

\* the handler: new MarkdownToPdfConverter({reuseInstance: true});
\* converter.setProgressCallback(...): the callback is assigned, then
\* this.renderer.setProgressCallback is called, which the renderer does not
\* have: the TypeError goes to the handler's catch block
GuiSetProgressCallback ==
    /\ merge.pc = "convert"
    /\ merge.caller = "gui"
    /\ progressCallback' = Callback({})
    /\ merge' = MergeCatch("TypeError")
    /\ UNCHANGED <<calls, closer>>
    /\ ConvFrame

\* the awaited convert settles: on to await converter.close(), or to the catch block
MergeConvertSettles ==
    /\ merge.pc = "awaitConvert"
    /\ \/ /\ calls[1].pc = "resolved"
          /\ merge' = [merge EXCEPT !.pc = "closing"]
          /\ closer' = StartClose("merge")
       \/ /\ calls[1].pc = "rejected"
          /\ merge' = MergeCatch(calls[1].err)
          /\ UNCHANGED closer
    /\ UNCHANGED <<calls, progressCallback>>
    /\ ConvFrame

\* the awaited close() settles: on to the removal of the temporary file, or to
\* the catch block
MergeCloseSettles ==
    /\ merge.pc = "closing"
    /\ \/ /\ closer.pc = "done"
          /\ merge' = [merge EXCEPT !.pc = "cleanup"]
       \/ /\ closer.pc = "failed"
          /\ merge' = MergeCatch(closer.err)
    /\ UNCHANGED <<calls, closer, progressCallback>>
    /\ ConvFrame

\* main: await cleanupTempFile(tempMarkdownPath); the handler: try { await
\* fs.unlink(tempPath) } catch { warn }, then the answer
CleanupTemp ==
    /\ merge.pc = "cleanup"
    /\ \E ok \in BOOLEAN :
          merge' = [Unlink(merge, ok) EXCEPT
                       !.pc = IF merge.caller = "cli" THEN "done" ELSE "responded"]
    /\ UNCHANGED <<calls, closer, progressCallback>>
    /\ ConvFrame

\* main's catch block: try { await fs.access(temp); await cleanupTempFile(temp) }
\* catch {}; process.exit(1)
MainCatch ==
    /\ merge.pc = "catch"
    /\ \E ok \in BOOLEAN :
          merge' = IF merge.temp = "exists"
                   THEN [Unlink(merge, ok) EXCEPT !.pc = "exited"]
                   ELSE [merge EXCEPT !.pc = "exited"]
    /\ UNCHANGED <<calls, closer, progressCallback>>
    /\ ConvFrame

NextMerge ==
    \/ MergeFiles
    \/ WriteTemp
    \/ MainConvert
    \/ GuiSetProgressCallback
    \/ MergeConvertSettles
    \/ MergeCloseSettles
    \/ CleanupTemp
    \/ MainCatch
    \/ \E c \in Slots :
          \/ ReadFile(c)
          \/ RenderHtml(c)
          \/ GetBrowser(c)
          \/ Launch(c)
          \/ NewPage(c)
          \/ SetupPage(c)
          \/ SetContent(c)
          \/ WaitReady(c)
          \/ ExportPdf(c)
          \/ FinallyClosePage(c)
          \/ PageCloseSettles(c)
          \/ FinallyCloseBrowser(c)
    \/ CloseLoop
    \/ CloseBrowserSettles
    \/ \E p \in Pages : PageClosedByBrowser(p)
    \/ \E b \in Browsers : BrowserDisconnects(b)

\* (with reuseInstance true generatePdf never closes the browser, and close()
\* is only reached after a convert that closed its page: BrowserCloseSettles
\* and ClosePageSettles have no part in these runs)
SpecMerge == InitMerge /\ [][NextMerge]_vars

----------------------------------------------------------------------------
(* Specification SpecConc: two PDF convert calls on one converter that run  *)
(* concurrently: the caller does not await the first call before it makes   *)
(* the second, and the calls interleave at their awaits.                    *)

\* the convert calls in flight
ConcSlots == {1, 2}

InitConc ==
    /\ RendererIdle
    /\ ReadyIdle
    /\ StyleIdle
    /\ MergeIdle
    /\ WarnIdle
    /\ browser = 0
    /\ reuseInstance \in BOOLEAN
    /\ ctorReuse = reuseInstance
    /\ openPages = {}
    /\ browserState = [b \in Browsers |-> "none"]
    /\ pageState = [p \in Pages |-> "none"]
    /\ pageBrowser = [p \in Pages |-> 0]
    /\ calls = [c \in ConcSlots |-> IdleCall]
    /\ batch = IdleBatch
    /\ closer = IdleCloser
    /\ ops = 0
    /\ progressCallback = NullCallback

\* the caller calls convert({input, output, format: 'pdf'}) and does not await it
CallConvertConcurrently(c) ==
    /\ calls[c].pc = "idle"
    /\ ops < MaxOps
    /\ ops' = ops + 1
    /\ calls' = [calls EXCEPT ![c] =
                    Step([IdleCall EXCEPT !.owner = "user", !.fmt = "pdf"],
                         "reading_file", "read")]
    /\ UNCHANGED <<browser, reuseInstance, openPages, browserState, pageState, pageBrowser,
                   batch, closer>>
    /\ Frame

NextConc ==
    \E c \in ConcSlots :
        \/ CallConvertConcurrently(c)
        \/ ReadFile(c)
        \/ RenderHtml(c)
        \/ GetBrowser(c)
        \/ Launch(c)
        \/ NewPage(c)
        \/ SetupPage(c)
        \/ SetContent(c)
        \/ WaitReady(c)
        \/ ExportPdf(c)
        \/ FinallyClosePage(c)
        \/ PageCloseSettles(c)
        \/ FinallyCloseBrowser(c)
        \/ BrowserCloseSettles(c)

SpecConc == InitConc /\ [][NextConc]_vars

----------------------------------------------------------------------------
(* Specification SpecWarn: the renderers of a process (one per converter)   *)
(* and the global console.warn they patch.  Renderers are constructed and   *)
(* cleaned up (by close() of their converter) in any order.                 *)

InitWarn ==
    /\ RendererIdle
    /\ ReadyIdle
    /\ StyleIdle
    /\ MergeIdle
    /\ browser = 0
    /\ reuseInstance = TRUE
    /\ openPages = {}
    /\ ctorReuse = TRUE
    /\ browserState = [b \in Browsers |-> "none"]
    /\ pageState = [p \in Pages |-> "none"]
    /\ pageBrowser = [p \in Pages |-> 0]
    /\ calls = [c \in Slots |-> IdleCall]
    /\ batch = IdleBatch
    /\ closer = IdleCloser
    /\ ops = 0
    /\ progressCallback = NullCallback
    /\ consoleWarn = 0
    /\ renderers = [i \in Renderers |-> NoRenderer]

\* restoreConsoleWarn: if (this.originalConsoleWarn) console.warn = this.originalConsoleWarn
\* (a function is never falsy): the value console.warn gets
restoreConsoleWarn(i) == renderers[i].originalConsoleWarn

\* new MarkdownLatexRenderer(): this.originalConsoleWarn = console.warn;
\* this.suppressKatexWarnings() installs the filter of this renderer
Construct(i) ==
    /\ renderers[i].state = "none"
    /\ renderers' = [renderers EXCEPT ![i] = [state |-> "live",
                                               originalConsoleWarn |-> consoleWarn]]
    /\ consoleWarn' = i
    /\ UNCHANGED <<rvars, wvars, cvars, svars, mvars>>

\* cleanup(): this.restoreConsoleWarn()
Cleanup(i) ==
    /\ renderers[i].state \in {"live", "cleaned"}
    /\ consoleWarn' = restoreConsoleWarn(i)
    /\ renderers' = [renderers EXCEPT ![i].state = "cleaned"]
    /\ UNCHANGED <<rvars, wvars, cvars, svars, mvars>>

NextWarn == \E i \in Renderers : Construct(i) \/ Cleanup(i)

SpecWarn == InitWarn /\ [][NextWarn]_vars

----------------------------------------------------------------------------
(* Properties of the converter (specification SpecConv) *)

\* C9: after convertBatch settles, whether it resolves or rejects and whichever
\* job failed, openPages is empty and the browser handle is null.  Stated for
\* a batch that is the first call on a new converter and in which
\* browser.close() itself did not reject.
C9_BatchCleanup ==
    (batch.pc \in {"resolved", "rejected"} /\ ops = 1 /\ batch.err # "browserClose") =>
        /\ openPages = {}
        /\ browser = 0

CleanupErrors == {"pageClose", "browserClose"}

\* C10: when page creation, setContent or page.pdf fails during a PDF job, convert
\* rejects with that error, the job's page has been closed and removed from
\* openPages and, under the isolated policy, the browser has been closed and the
\* handle reset to null.  Stated for the jobs whose cleanup calls all resolved
\* and whose page the browser did not close by itself.
C10_FailedJobCleanup ==
    \A c \in Slots :
        ( /\ calls[c].pc = "rejected"
          /\ calls[c].failedAt \in {"launch", "newPage", "setup", "setContent", "pdf"}
          /\ calls[c].err \notin CleanupErrors
          /\ calls[c].created # 0 => pageState[calls[c].created] # "closedByBrowser" )
        =>
        /\ calls[c].err = calls[c].failedAt
        /\ calls[c].created # 0 =>
              /\ IsClosed(calls[c].created)
              /\ calls[c].created \notin openPages
        /\ ~reuseInstance =>
              /\ browser = 0
              /\ \A b \in Browsers : browserState[b] # "running"

\* C11: a failure inside the cleanup path (page.close() or browser.close()
\* rejecting in generatePdf's finally block) is swallowed: a settled job carries
\* the error of the step that failed, none when its export succeeded, and never
\* the error of a cleanup call.
C11_CleanupErrorsSwallowed ==
    \A c \in Slots :
        calls[c].pc \in {"resolved", "rejected"} =>
            /\ calls[c].err = calls[c].failedAt
            /\ calls[c].err \notin CleanupErrors

\* C12: under the isolated policy a PDF convert call launches its own browser
\* and has closed it (browser handle null) by the time the call settles; under
\* the reuse policy the browser is left to close().  In both policies the job's
\* page is closed by the time the call settles.  Stated for the calls that got
\* a browser and in which browser.close() itself did not reject.
C12_PolicyLifecycle ==
    \A c \in Slots :
        ( /\ calls[c].pc \in {"resolved", "rejected"}
          /\ calls[c].b # 0
          /\ calls[c].err # "browserClose" ) =>
            /\ ~reuseInstance =>
                  /\ calls[c].launched
                  /\ browser = 0
                  /\ browserState[calls[c].b] # "running"
            /\ reuseInstance => (browser = calls[c].b \/ ~IsConnected(calls[c].b))
            /\ calls[c].created # 0 => IsClosed(calls[c].created)

\* the formats convert handles
SupportedFormats == {"pdf", "html"}

----------------------------------------------------------------------------
(* Properties of the extractor, continued (specification Spec) *)

\* the pass of the pair ('$', '$')
DollarPass ==
    CHOOSE k \in 1..Len(MATH_DELIMITERS) :
        MATH_DELIMITERS[k].open = DOLLAR /\ MATH_DELIMITERS[k].close = DOLLAR

\* C14: the single-`$` pass never produces a span across a `$$` boundary:
\* neither the opening nor the closing `$` of its match is next to another `$`
\* in the text the pass scans, the match holds no `$$`, and the content of the
\* span is not empty.
C14_DollarNeverSplitsDoubleDollar ==
    pc # "start" =>
        \A i \in 1..Len(spanSrc) :
            spanSrc[i].pass = DollarPass =>
                LET r == spanSrc[i]
                IN  /\ ~IsDollar(r.txt, r.s - 1)
                    /\ ~IsDollar(r.txt, r.s + 1)
                    /\ ~IsDollar(r.txt, r.e - 1)
                    /\ ~IsDollar(r.txt, r.e + 1)
                    /\ \A j \in r.s..(r.e - 1) :
                           ~(IsDollar(r.txt, j) /\ IsDollar(r.txt, j + 1))
                    /\ mathExpressions[i].content # <<>>

\* the opening delimiter of pair k occurs at position p of the input, no closing
\* delimiter of the pair follows it and, when the pair's delimiters are equal,
\* no other occurrence precedes it
UnterminatedAt(k, p) ==
    LET d == MATH_DELIMITERS[k]
    IN  /\ StartsAt(content, p, d.open)
        /\ \A q \in (p + Len(d.open))..Len(content) : ~StartsAt(content, q, d.close)
        /\ d.open = d.close => \A q \in 1..(p - 1) : ~StartsAt(content, q, d.open)

\* the input positions of the delimiter characters of span i's match
SpanDelimOrigins(i) ==
    LET m == spanSrc[i].match
        d == MATH_DELIMITERS[spanSrc[i].pass]
    IN  {m[j].o : j \in 1..Len(d.open)}
        \cup {m[j].o : j \in (Len(m) - Len(d.close) + 1)..Len(m)}

\* the input characters p .. p + n - 1 occur in t, adjacent and in order
KeptWhole(t, p, n) ==
    \E j \in 1..Len(t) :
        /\ j + n - 1 <= Len(t)
        /\ \A q \in 0..(n - 1) : t[j + q].o = p + q

\* C15: an opening delimiter without a closing delimiter before the end of the
\* text is left untouched: none of its characters is taken as a delimiter of a
\* span, and the occurrence stays whole in the rewritten text (or, when it lies
\* between the delimiters of another pair, in that span's source).
C15_UnterminatedLeftUntouched ==
    pc # "start" =>
        \A k \in 1..Len(MATH_DELIMITERS), p \in 1..Len(content) :
            UnterminatedAt(k, p) =>
                LET n == Len(MATH_DELIMITERS[k].open)
                IN  /\ \A i \in 1..Len(spanSrc) :
                           SpanDelimOrigins(i) \cap (p..(p + n - 1)) = {}
                    /\ \/ KeptWhole(processedContent, p, n)
                       \/ \E i \in 1..Len(spanSrc) : KeptWhole(spanSrc[i].match, p, n)

\* the prose of ExMixed around its two formulas
MixedProse ==
    << <<"T", "h", "e", " ", "v", "a", "l", "u", "e", " ">>,
       <<" ", "s", "o", "l", "v", "e", "s", " ">>,
       <<".">> >>

\* the rewritten text of ExMixed keeps the prose verbatim around the placeholder
\* of span i followed by the placeholder of span b
MixedTextKept(i, b) ==
    Chars(processedContent) =
        MixedProse[1] \o mathExpressions[i].placeholder
        \o MixedProse[2] \o mathExpressions[b].placeholder
        \o MixedProse[3]

\* C16 as amended: for `The value $x$ solves $$x^2=4$$.` processMathExpressions
\* returns exactly two spans, the block span `x^2=4` first (id 0) and the inline
\* span `x` second (id 1), the block passes running before the inline passes;
\* the rewritten text keeps the prose verbatim around the two placeholders.
C16_MixedExample ==
    (pc # "start" /\ Chars(content) = ExMixed) =>
        /\ Len(mathExpressions) = 2
        /\ mathExpressions[1].type = "block"
        /\ Chars(mathExpressions[1].content) = <<"x", "^", "2", "=", "4">>
        /\ mathExpressions[1].placeholder = Placeholder(TRUE, 0)
        /\ mathExpressions[2].type = "inline"
        /\ Chars(mathExpressions[2].content) = <<"x">>
        /\ mathExpressions[2].placeholder = Placeholder(FALSE, 1)
        /\ MixedTextKept(2, 1)

\* C16 witness: the mixed example has been extracted, one span per pass
C16_Witness ==
    /\ pc = "extracted"
    /\ Chars(content) = ExMixed
    /\ Len(spanSrc) = 2
    /\ spanSrc[1].pass = 1
    /\ spanSrc[2].pass = DollarPass

\* C16 as claimed: for `The value $x$ solves $$x^2=4$$.` processMathExpressions
\* returns exactly two spans, the inline span `x` and the block span `x^2=4` in
\* that order in the list, and the rewritten text keeps the prose verbatim
\* around the two placeholders.
C16_MixedExampleInlineFirst ==
    (pc # "start" /\ Chars(content) = ExMixed) =>
        /\ Len(mathExpressions) = 2
        /\ mathExpressions[1].type = "inline"
        /\ Chars(mathExpressions[1].content) = <<"x">>
        /\ mathExpressions[2].type = "block"
        /\ Chars(mathExpressions[2].content) = <<"x", "^", "2", "=", "4">>
        /\ MixedTextKept(1, 2)

\* C17: for `Price is $5 and $10` processMathExpressions either extracts
\* exactly one inline span whose content is `5 and $10`, or extracts no span and
\* returns the text unchanged.
C17_PriceExample ==
    (pc # "start" /\ Chars(content) = ExPrice) =>
        \/ /\ Len(mathExpressions) = 1
           /\ mathExpressions[1].type = "inline"
           /\ Chars(mathExpressions[1].content) =
                  <<"5", " ", "a", "n", "d", " ">> \o DOLLAR \o <<"1", "0">>
        \/ /\ Len(mathExpressions) = 0
           /\ Chars(processedContent) = ExPrice

\* C18: processMathExpressions returns on every input text, and each of the
\* four passes makes one scan from left to right: the spans are listed pass by
\* pass, every match lies inside the text its pass scanned, and within a pass
\* a match starts after the end of the match before it.
C18_ExtractorTerminates ==
    /\ pc = "start" => Len(processMathExpressions(content).exprs) <= Len(content)
    /\ pc # "start" =>
          /\ Len(spanSrc) = Len(mathExpressions)
          /\ Len(spanSrc) <= Len(content)
          /\ \A i \in 1..Len(spanSrc) :
                /\ spanSrc[i].pass \in 1..Len(MATH_DELIMITERS)
                /\ 1 <= spanSrc[i].s
                /\ spanSrc[i].s < spanSrc[i].e
                /\ spanSrc[i].e <= Len(spanSrc[i].txt)
          /\ \A i, j \in 1..Len(spanSrc) :
                i < j =>
                    /\ spanSrc[i].pass <= spanSrc[j].pass
                    /\ spanSrc[i].pass = spanSrc[j].pass => spanSrc[i].e < spanSrc[j].s

\* C18 witness: `$a$ $b$` has been extracted, two matches of the same pass
C18_Witness ==
    /\ pc = "extracted"
    /\ Chars(content) = ExTwoInline
    /\ Len(spanSrc) = 2
    /\ spanSrc[1].pass = DollarPass
    /\ spanSrc[2].pass = DollarPass

----------------------------------------------------------------------------
(* Specification SpecStyle: style options on their way to the CSS          *)
(*                                                                         *)
(* A style value is a sequence of characters; the empty sequence stands    *)
(* for undefined (the option was not given).  The options reach the        *)
(* renderer from the command line (handleConvert, which calls              *)
(* normalizeNumericOptions first) or directly as the styleOptions argument *)
(* of render / convert.  A preset table is a sequence of <<name, value>>.  *)
(***************************************************************************)

UNDEFINED == <<>>

\* config.js FONT_SIZE_CONFIG
FONT_SIZE_CONFIG ==
    << << <<"s", "m", "a", "l", "l">>,
          <<"1", "2", "p", "x">> >>,
       << <<"m", "e", "d", "i", "u", "m">>,
          <<"1", "4", "p", "x">> >>,
       << <<"l", "a", "r", "g", "e">>,
          <<"1", "6", "p", "x">> >>,
       << <<"x", "l", "a", "r", "g", "e">>,
          <<"1", "8", "p", "x">> >> >>

DEFAULT_FONT_SIZE == <<"m", "e", "d", "i", "u", "m">>

\* config.js CHINESE_FONT_CONFIG (every font list shortened to two families)
CHINESE_FONT_CONFIG ==
    << << <<"s", "i", "m", "s", "u", "n">>,
          <<"S", "i", "m", "S", "u", "n", ",", "s", "e", "r", "i", "f">> >>,
       << <<"s", "i", "m", "h", "e", "i">>,
          <<"S", "i", "m", "H", "e", "i", ",", "s", "a", "n", "s", "-", "s", "e", "r", "i", "f">> >>,
       << <<"s", "i", "m", "k", "a", "i">>,
          <<"K", "a", "i", "T", "i", ",", "s", "e", "r", "i", "f">> >>,
       << <<"f", "a", "n", "g", "s", "o", "n", "g">>,
          <<"F", "a", "n", "g", "S", "o", "n", "g", ",", "s", "e", "r", "i", "f">> >>,
       << <<"y", "a", "h", "e", "i">>,
          <<"Y", "a", "H", "e", "i", ",", "s", "a", "n", "s", "-", "s", "e", "r", "i", "f">> >>,
       << <<"a", "u", "t", "o">>,
          <<"s", "y", "s", "t", "e", "m", "-", "u", "i", ",", "s", "a", "n", "s", "-", "s", "e", "r", "i", "f">> >> >>

DEFAULT_CHINESE_FONT == <<"a", "u", "t", "o">>

\* config.js FONT_WEIGHT_CONFIG
FONT_WEIGHT_CONFIG ==
    << << <<"l", "i", "g", "h", "t">>,
          <<"3", "0", "0">> >>,
       << <<"n", "o", "r", "m", "a", "l">>,
          <<"4", "0", "0">> >>,
       << <<"m", "e", "d", "i", "u", "m">>,
          <<"5", "0", "0">> >>,
       << <<"s", "e", "m", "i", "b", "o", "l", "d">>,
          <<"6", "0", "0">> >>,
       << <<"b", "o", "l", "d">>,
          <<"7", "0", "0">> >>,
       << <<"b", "l", "a", "c", "k">>,
          <<"9", "0", "0">> >> >>

DEFAULT_FONT_WEIGHT == <<"n", "o", "r", "m", "a", "l">>

\* config.js LINE_SPACING_CONFIG
LINE_SPACING_CONFIG ==
    << << <<"t", "i", "g", "h", "t">>,
          <<"1", ".", "2">> >>,
       << <<"n", "o", "r", "m", "a", "l">>,
          <<"1", ".", "6">> >>,
       << <<"l", "o", "o", "s", "e">>,
          <<"2", ".", "0">> >>,
       << <<"r", "e", "l", "a", "x", "e", "d">>,
          <<"2", ".", "4">> >> >>

\* config.js PARAGRAPH_SPACING_CONFIG
PARAGRAPH_SPACING_CONFIG ==
    << << <<"t", "i", "g", "h", "t">>,
          <<"0", ".", "5", "e", "m">> >>,
       << <<"n", "o", "r", "m", "a", "l">>,
          <<"1", "e", "m">> >>,
       << <<"l", "o", "o", "s", "e">>,
          <<"1", ".", "5", "e", "m">> >>,
       << <<"r", "e", "l", "a", "x", "e", "d">>,
          <<"2", "e", "m">> >> >>

\* config.js MATH_SPACING_CONFIG
MATH_SPACING_CONFIG ==
    << << <<"t", "i", "g", "h", "t">>,
          <<"1", "0", "p", "x">> >>,
       << <<"n", "o", "r", "m", "a", "l">>,
          <<"2", "0", "p", "x">> >>,
       << <<"l", "o", "o", "s", "e">>,
          <<"3", "0", "p", "x">> >>,
       << <<"r", "e", "l", "a", "x", "e", "d">>,
          <<"4", "0", "p", "x">> >> >>

\* the preset names of a table
PresetNames(tbl) == {tbl[i][1] : i \in 1..Len(tbl)}

\* TABLE[key]: the value of the preset, undefined when key is no preset name
Lookup(tbl, key) ==
    IF key \in PresetNames(tbl)
    THEN tbl[CHOOSE i \in 1..Len(tbl) : tbl[i][1] = key][2]
    ELSE UNDEFINED

\* a || b on style values
OrElse(a, b) == IF a # UNDEFINED THEN a ELSE b

DigitSet == {DigitChar[i] : i \in 1..Len(DigitChar)}

\* /^(\d+|\d*\.\d+)$/.test(v)
IsBareNumber(v) ==
    \/ /\ Len(v) >= 1
       /\ \A i \in 1..Len(v) : v[i] \in DigitSet
    \/ \E d \in 1..Len(v) :
          /\ v[d] = "."
          /\ d < Len(v)
          /\ \A i \in 1..Len(v) : i # d => v[i] \in DigitSet

\* WithUnit with the pattern not anchored at the end, /^(\d+|\d*\.\d+)/: a value
\* that only starts with a number gets the unit too
WithUnit_Unanchored(v, unit) ==
    IF v # UNDEFINED /\ (v[1] \in DigitSet \/ (Len(v) >= 2 /\ v[1] = "." /\ v[2] \in DigitSet))
    THEN v \o unit ELSE v

\* if (normalized.x && /^(\d+|\d*\.\d+)$/.test(normalized.x)) normalized.x += unit
WithUnit(v, unit) ==
    IF v # UNDEFINED /\ IsBareNumber(v) THEN v \o unit ELSE v

PX == <<"p", "x">>
EM == <<"e", "m">>
MM == <<"m", "m">>
PT == <<"p", "t">>

\* cli.js normalizeNumericOptions(options)
normalizeNumericOptions(options) ==
    [options EXCEPT !.margin = WithUnit(@, MM),
                    !.fontSize = WithUnit(@, PX),
                    !.paragraphSpacing = WithUnit(@, EM),
                    !.mathSpacing = WithUnit(@, PX)]

\* handleConvert: the styleOptions object built from the normalized options
\* (the margin goes to pdfOptions)
CliStyleOptions(options) ==
    [fontSize |-> options.fontSize, chineseFont |-> options.chineseFont,
     fontWeight |-> options.fontWeight, lineSpacing |-> options.lineSpacing,
     paragraphSpacing |-> options.paragraphSpacing, mathSpacing |-> options.mathSpacing,
     margin |-> UNDEFINED]

\* a destructuring default: `name = dflt` applies when the property is undefined
Default(v, dflt) == IF v = UNDEFINED THEN dflt ELSE v

\* renderer processStyleOptions(styleOptions)
processStyleOptions(styleOptions) ==
    LET fontSize == Default(styleOptions.fontSize, DEFAULT_FONT_SIZE)
        chineseFont == Default(styleOptions.chineseFont, DEFAULT_CHINESE_FONT)
        fontWeight == Default(styleOptions.fontWeight, DEFAULT_FONT_WEIGHT)
    IN  [styleOptions EXCEPT
            !.fontSize = OrElse(Lookup(FONT_SIZE_CONFIG, fontSize), fontSize),
            !.chineseFont = chineseFont,
            !.fontWeight = OrElse(Lookup(FONT_WEIGHT_CONFIG, fontWeight), fontWeight)]

\* the value of a digit character
DigitValue(ch) == (CHOOSE i \in 1..Len(DigitChar) : DigitChar[i] = ch) - 1

\* the number written by the digits v
RECURSIVE DigitsValue(_)
DigitsValue(v) ==
    IF v = <<>> THEN 0
    ELSE 10 * DigitsValue(SubSeq(v, 1, Len(v) - 1)) + DigitValue(v[Len(v)])

\* the longest prefix of v made of digits
LeadingDigits(v) ==
    LET NonDigit == {i \in 1..Len(v) : v[i] \notin DigitSet}
    IN  IF NonDigit = {} THEN v ELSE SubSeq(v, 1, MinOf(NonDigit) - 1)

\* getCssStyles convertPxToPt(pxValue): parseFloat(pxValue.replace('px', '')) * 0.75
\* followed by `pt`; the sizes of the model are whole numbers, so the result is
\* given in quarters of a point, NaN when the value does not start with a digit
convertPxToPt(pxValue) ==
    LET d == LeadingDigits(pxValue)
    IN  IF d = <<>> THEN [quarters |-> "NaN", unit |-> PT]
        ELSE [quarters |-> 3 * DigitsValue(d), unit |-> PT]

\* getCssStyles whose getLineSpacing returns its argument without the lookup
getCssStyles_LineSpacingAsGiven(options) ==
    LET fontSize == Default(options.fontSize, <<"1", "4", "p", "x">>)
        chineseFont == Default(options.chineseFont, <<"a", "u", "t", "o">>)
        fontWeight == Default(options.fontWeight, <<"n", "o", "r", "m", "a", "l">>)
        lineSpacing == Default(options.lineSpacing, <<"n", "o", "r", "m", "a", "l">>)
        paragraphSpacing ==
            Default(options.paragraphSpacing, <<"n", "o", "r", "m", "a", "l">>)
        mathSpacing == Default(options.mathSpacing, <<"n", "o", "r", "m", "a", "l">>)
    IN  [fontFamily |-> OrElse(Lookup(CHINESE_FONT_CONFIG, chineseFont),
                               Lookup(CHINESE_FONT_CONFIG, <<"a", "u", "t", "o">>)),
         fontWeight |-> OrElse(Lookup(FONT_WEIGHT_CONFIG, fontWeight), fontWeight),
         lineHeight |-> lineSpacing,
         fontSize |-> fontSize,
         paragraphMargin |->
             OrElse(Lookup(PARAGRAPH_SPACING_CONFIG, paragraphSpacing), paragraphSpacing),
         mathMargin |-> OrElse(Lookup(MATH_SPACING_CONFIG, mathSpacing), mathSpacing),
         printFontSize |-> convertPxToPt(fontSize)]

\* template.js getCssStyles(options): the values of the declarations
getCssStyles(options) ==
    LET fontSize == Default(options.fontSize, <<"1", "4", "p", "x">>)
        chineseFont == Default(options.chineseFont, <<"a", "u", "t", "o">>)
        fontWeight == Default(options.fontWeight, <<"n", "o", "r", "m", "a", "l">>)
        lineSpacing == Default(options.lineSpacing, <<"n", "o", "r", "m", "a", "l">>)
        paragraphSpacing ==
            Default(options.paragraphSpacing, <<"n", "o", "r", "m", "a", "l">>)
        mathSpacing == Default(options.mathSpacing, <<"n", "o", "r", "m", "a", "l">>)
    IN  [fontFamily |-> OrElse(Lookup(CHINESE_FONT_CONFIG, chineseFont),
                               Lookup(CHINESE_FONT_CONFIG, <<"a", "u", "t", "o">>)),
         fontWeight |-> OrElse(Lookup(FONT_WEIGHT_CONFIG, fontWeight), fontWeight),
         lineHeight |-> OrElse(Lookup(LINE_SPACING_CONFIG, lineSpacing), lineSpacing),
         fontSize |-> fontSize,
         paragraphMargin |->
             OrElse(Lookup(PARAGRAPH_SPACING_CONFIG, paragraphSpacing), paragraphSpacing),
         mathMargin |-> OrElse(Lookup(MATH_SPACING_CONFIG, mathSpacing), mathSpacing),
         printFontSize |-> convertPxToPt(fontSize)]

\* the values the user gives: not given, preset names, bare numbers, literals with a unit
FontSizeInputs ==
    {UNDEFINED,
     <<"s", "m", "a", "l", "l">>,
     <<"l", "a", "r", "g", "e">>,
     <<"1", "6">>,
     <<"1", "6", "p", "x">>,
     <<"1", "2", "p", "t">>}

ChineseFontInputs ==
    {UNDEFINED,
     <<"s", "i", "m", "s", "u", "n">>,
     <<"A", "r", "i", "a", "l">>}

FontWeightInputs ==
    {UNDEFINED,
     <<"b", "o", "l", "d">>,
     <<"6", "0", "0">>}

LineSpacingInputs ==
    {UNDEFINED,
     <<"l", "o", "o", "s", "e">>,
     <<"1", ".", "8">>}

ParagraphSpacingInputs ==
    {UNDEFINED,
     <<"t", "i", "g", "h", "t">>,
     <<"2">>,
     <<"1", ".", "5">>,
     <<"2", "e", "m">>}

MathSpacingInputs ==
    {UNDEFINED,
     <<"r", "e", "l", "a", "x", "e", "d">>,
     <<"2", "5">>,
     <<"2", "5", "p", "x">>}

MarginInputs ==
    {UNDEFINED,
     <<"2", "0">>}

StyleFields ==
    {"fontSize", "chineseFont", "fontWeight", "lineSpacing", "paragraphSpacing",
     "mathSpacing"}

InitStyle ==
    /\ RendererIdle
    /\ ReadyIdle
    /\ ConvIdle
    /\ styleSrc \in {"cli", "api"}
    /\ styleIn \in [fontSize : FontSizeInputs, chineseFont : ChineseFontInputs,
                    fontWeight : FontWeightInputs, lineSpacing : LineSpacingInputs,
                    paragraphSpacing : ParagraphSpacingInputs,
                    mathSpacing : MathSpacingInputs, margin : MarginInputs]
    /\ styleSrc = "api" => styleIn.margin = UNDEFINED
    /\ stylePc = "start"
    /\ styleOpts = <<>>
    /\ css = <<>>

\* cli.js handleConvert: normalizeNumericOptions(options), then the styleOptions
\* object handed to the converter
CliConvert ==
    /\ stylePc = "start"
    /\ styleSrc = "cli"
    /\ styleOpts' = CliStyleOptions(normalizeNumericOptions(styleIn))
    /\ stylePc' = "options"
    /\ UNCHANGED <<styleSrc, styleIn, css, rvars, wvars, cvars, mvars, nvars>>

\* the caller passes styleOptions to render / convert itself
ApiRender ==
    /\ stylePc = "start"
    /\ styleSrc = "api"
    /\ styleOpts' = styleIn
    /\ stylePc' = "options"
    /\ UNCHANGED <<styleSrc, styleIn, css, rvars, wvars, cvars, mvars, nvars>>

\* render: const processedStyleOptions = this.processStyleOptions(styleOptions)
ProcessStyle ==
    /\ stylePc = "options"
    /\ styleOpts' = processStyleOptions(styleOpts)
    /\ stylePc' = "processed"
    /\ UNCHANGED <<styleSrc, styleIn, css, rvars, wvars, cvars, mvars, nvars>>

\* generateHtmlDocument: ${getCssStyles(options)}
GenerateCss ==
    /\ stylePc = "processed"
    /\ css' = getCssStyles(styleOpts)
    /\ stylePc' = "css"
    /\ UNCHANGED <<styleSrc, styleIn, styleOpts, rvars, wvars, cvars, mvars, nvars>>

NextStyle == CliConvert \/ ApiRender \/ ProcessStyle \/ GenerateCss

SpecStyle == InitStyle /\ [][NextStyle]_vars

----------------------------------------------------------------------------
(* Properties of the style options (specification SpecStyle) *)

\* the value has no unit: it is a bare number
Unitless(v) == IsBareNumber(v)

\* C19: a style field given as a bare number gets its unit appended before the
\* CSS is generated, px for fontSize and mathSpacing and em for
\* paragraphSpacing, whether the options come from the command line or are
\* passed to render / convert directly: the generated CSS holds no unit-less
\* size or spacing.
C19_BareNumbersGetUnits ==
    stylePc = "css" =>
        /\ IsBareNumber(styleIn.fontSize) => css.fontSize = styleIn.fontSize \o PX
        /\ IsBareNumber(styleIn.mathSpacing) => css.mathMargin = styleIn.mathSpacing \o PX
        /\ IsBareNumber(styleIn.paragraphSpacing) =>
              css.paragraphMargin = styleIn.paragraphSpacing \o EM
        /\ ~Unitless(css.fontSize)
        /\ ~Unitless(css.mathMargin)
        /\ ~Unitless(css.paragraphMargin)

\* the preset table of a style field
FieldTable(f) ==
    CASE f = "fontSize" -> FONT_SIZE_CONFIG
      [] f = "chineseFont" -> CHINESE_FONT_CONFIG
      [] f = "fontWeight" -> FONT_WEIGHT_CONFIG
      [] f = "lineSpacing" -> LINE_SPACING_CONFIG
      [] f = "paragraphSpacing" -> PARAGRAPH_SPACING_CONFIG
      [] f = "mathSpacing" -> MATH_SPACING_CONFIG

\* the preset a field takes when it is not given
FieldDefault(f) ==
    CASE f = "fontSize" -> DEFAULT_FONT_SIZE
      [] f = "chineseFont" -> DEFAULT_CHINESE_FONT
      [] f = "fontWeight" -> DEFAULT_FONT_WEIGHT
      [] OTHER -> <<"n", "o", "r", "m", "a", "l">>

\* the declaration of the generated CSS that carries a style field
FieldCss(f) ==
    CASE f = "fontSize" -> css.fontSize
      [] f = "chineseFont" -> css.fontFamily
      [] f = "fontWeight" -> css.fontWeight
      [] f = "lineSpacing" -> css.lineHeight
      [] f = "paragraphSpacing" -> css.paragraphMargin
      [] f = "mathSpacing" -> css.mathMargin

\* C20 as amended: processStyleOptions resolves the presets of fontSize and
\* fontWeight, and getCssStyles those of chineseFont, lineSpacing,
\* paragraphSpacing and mathSpacing: in the generated CSS every style field
\* holds a value, never a preset name of its table; a field given as a preset
\* holds the preset's value and a field not given the value of its default preset.
C20_PresetsResolvedInCss ==
    /\ stylePc = "processed" =>
          \A f \in {"fontSize", "fontWeight"} :
              /\ styleOpts[f] # UNDEFINED
              /\ styleOpts[f] \notin PresetNames(FieldTable(f))
    /\ stylePc = "css" =>
          \A f \in StyleFields :
              /\ FieldCss(f) # UNDEFINED
              /\ FieldCss(f) \notin PresetNames(FieldTable(f))
              /\ styleIn[f] \in PresetNames(FieldTable(f)) =>
                    FieldCss(f) = Lookup(FieldTable(f), styleIn[f])
              /\ styleIn[f] = UNDEFINED =>
                    FieldCss(f) = Lookup(FieldTable(f), FieldDefault(f))

\* C20 witness: CSS was generated for options that name the presets loose and
\* simsun, and holds their values
C20_Witness ==
    /\ stylePc = "css"
    /\ styleIn.lineSpacing = <<"l", "o", "o", "s", "e">>
    /\ styleIn.chineseFont = <<"s", "i", "m", "s", "u", "n">>
    /\ css.lineHeight = <<"2", ".", "0">>
    /\ css.fontFamily = Lookup(CHINESE_FONT_CONFIG, styleIn.chineseFont)

\* C20 as claimed: after processStyleOptions every style field (fontSize,
\* chineseFont, fontWeight, lineSpacing, paragraphSpacing, mathSpacing) holds a
\* concrete value and never a preset name.
C20_PresetsResolvedByProcessStyleOptions ==
    stylePc = "processed" =>
        \A f \in StyleFields :
            /\ styleOpts[f] # UNDEFINED
            /\ styleOpts[f] \notin PresetNames(FieldTable(f))

\* C21: style normalization is idempotent.  normalizeNumericOptions applied to
\* options it has normalized, and processStyleOptions applied to options it has
\* processed, return the same options; a fontSize of 16px stays 16px, and a
\* value that came from a preset or from an appended unit is not changed by a
\* second pass of either function.
C21_NormalizationIdempotent ==
    /\ (stylePc = "options" /\ styleSrc = "cli") =>
          /\ normalizeNumericOptions(normalizeNumericOptions(styleIn))
                = normalizeNumericOptions(styleIn)
          /\ normalizeNumericOptions(styleOpts) = styleOpts
    /\ stylePc = "processed" =>
          /\ processStyleOptions(styleOpts) = styleOpts
          /\ styleSrc = "cli" => normalizeNumericOptions(styleOpts) = styleOpts
          /\ styleIn.fontSize = <<"1", "6", "p", "x">> =>
                styleOpts.fontSize = <<"1", "6", "p", "x">>

\* C21 witness: the command line gave fontSize 16, margin 20 and the preset
\* bold; the options were normalized to 16px and processed to weight 700
C21_Witness ==
    /\ stylePc = "processed"
    /\ styleSrc = "cli"
    /\ styleIn.fontSize = <<"1", "6">>
    /\ styleIn.margin = <<"2", "0">>
    /\ styleIn.fontWeight = <<"b", "o", "l", "d">>
    /\ styleOpts.fontSize = <<"1", "6", "p", "x">>
    /\ styleOpts.fontWeight = <<"7", "0", "0">>

----------------------------------------------------------------------------
(* Properties of the progress callback (specification SpecProgress) *)

\* C22: the progress callback is purely observational: whatever the callback
\* does, a settled convert call carries the outcome of its own steps, a call is
\* rejected only with the error of one of its steps and never with an exception
\* of the callback, and a call that has written its output file and whose
\* cleanup succeeded returns the path.
C22_CallbackObservational ==
    \A c \in Slots :
        calls[c].pc \in {"resolved", "rejected"} =>
            /\ calls[c].err # "callback"
            /\ (calls[c].wrote /\ calls[c].err \notin CleanupErrors) => calls[c].pc = "resolved"

\* the phases of a call that are terminal
Terminal(ph) == {i \in 1..Len(ph) : ph[i] \in {"completed", "error"}}

\* the phases before the terminal one, in the order convert passes them
PhaseOrder(fmt) ==
    IF fmt = "html" THEN <<"reading_file", "rendering_html", "saving_html">>
    ELSE IF fmt = "pdf" THEN <<"reading_file", "rendering_html", "generating_pdf">>
    ELSE <<"reading_file", "rendering_html">>

IsPrefix(s, t) == Len(s) <= Len(t) /\ s = SubSeq(t, 1, Len(s))

\* C29: with a callback installed that does not throw, a convert call reports
\* reading_file, rendering_html, then saving_html or generating_pdf, in this
\* order, and no terminal phase while it runs; a call that returns has reported
\* all three and then completed, after the output file was written, and a call
\* that throws ends with error: every settled call has reported exactly one
\* terminal phase, as its last report.
C29_PhaseOrder ==
    \A c \in Slots :
        (progressCallback = Callback({}) /\ calls[c].pc # "idle") =>
            LET ph == calls[c].phases
            IN  /\ ~SettledCall(c) =>
                      /\ Terminal(ph) = {}
                      /\ IsPrefix(ph, PhaseOrder(calls[c].fmt))
                /\ SettledCall(c) =>
                      /\ Terminal(ph) = {Len(ph)}
                      /\ IsPrefix(SubSeq(ph, 1, Len(ph) - 1), PhaseOrder(calls[c].fmt))
                      /\ Len(ph) >= 2
                /\ calls[c].pc = "resolved" =>
                      /\ ph = PhaseOrder(calls[c].fmt) \o <<"completed">>
                      /\ calls[c].wrote
                      /\ calls[c].fmt \in SupportedFormats
                /\ calls[c].pc = "rejected" => ph[Len(ph)] = "error"

\* C29 witness: with an observing callback installed by setProgressCallback, a
\* PDF call has written its file and returned after its four reports
C29_Witness ==
    \E c \in Slots :
        /\ progressCallback = Callback({})
        /\ ops = 2
        /\ calls[c].pc = "resolved"
        /\ calls[c].wrote
        /\ calls[c].phases = <<"reading_file", "rendering_html", "generating_pdf", "completed">>

----------------------------------------------------------------------------
(* Properties of the merge callers (specification SpecMerge) *)

\* the caller has finished: main returned or left through process.exit, the
\* handler has answered
MergeFinished == merge.pc \in {"done", "exited", "responded"}

\* C23: a temporary merged Markdown file that a merge caller created is deleted
\* by the time the caller has finished, on the success path and on every error
\* path, convert throwing included.  Stated for the runs in which no fs.unlink
\* call of the caller failed.
C23_TempFileDeleted ==
    (MergeFinished /\ merge.temp # "none" /\ ~merge.unlinkFailed) => merge.temp = "deleted"

----------------------------------------------------------------------------
(* Properties of the converter, continued (specification SpecConv) *)

\* the pages the converter has opened that are still open
OpenedNotClosed == {p \in Pages : pageState[p] = "open"}

\* the pages between browser.newPage() and the end of createPage
InCreatePage == {calls[c].created : c \in {x \in Slots : calls[x].pc = "setup"}}

\* C24: openPages contains exactly the pages the converter has opened that are
\* not yet closed: a page obtained from browser.newPage is tracked once
\* createPage is over, also when the page setup or the conversion failed, and
\* no closed page stays in the set, whoever closed it.  After close() has
\* returned every page is closed, openPages is empty and the browser handle is null.
C24_OpenPagesExact ==
    /\ openPages \subseteq OpenedNotClosed
    /\ (OpenedNotClosed \ InCreatePage) \subseteq openPages
    /\ closer.pc = "done" =>
          /\ OpenedNotClosed = {}
          /\ openPages = {}
          /\ browser = 0

\* C25: convertBatch processes its jobs one at a time in array order: the job
\* it starts is the next one of the array and it starts only after all earlier
\* jobs have resolved; at most one page opened during the batch is open at any
\* moment; once a job is rejected no later job is started and convertBatch
\* rejects with the error of that job; a batch that resolves has run every job.
C25_BatchSequential ==
    batch.pc # "idle" =>
        /\ batch.started <= batch.n
        /\ batch.pc = "await" =>
              /\ batch.started = batch.i
              /\ batch.resolvedJobs = batch.started - 1
              /\ calls[1].owner = "batch"
        /\ batch.pc = "loop" => batch.resolvedJobs = batch.started
        /\ Cardinality(OpenedNotClosed \ batch.before) <= 1
        /\ batch.jobErr # "none" =>
              /\ batch.pc \in {"closing", "rejected"}
              /\ batch.started = batch.resolvedJobs + 1
              /\ batch.pc = "rejected" => batch.err = batch.jobErr
        /\ batch.pc = "resolved" => batch.resolvedJobs = batch.n
        /\ (batch.pc = "rejected" /\ batch.jobErr = "none") => batch.resolvedJobs = batch.n

\* C26: convertBatch forces the reuse policy on only for the duration of the
\* batch: once convertBatch has settled, reuseInstance is again the value the
\* constructor gave it, and a converter constructed as isolated still closes
\* its browser at the end of every later PDF convert call whose
\* browser.close() did not reject.
C26_ReuseRestoredAfterBatch ==
    /\ batch.pc \in {"resolved", "rejected"} => reuseInstance = ctorReuse
    /\ \A c \in Slots :
          ( /\ ~ctorReuse
            /\ calls[c].owner = "user"
            /\ calls[c].pc \in {"resolved", "rejected"}
            /\ calls[c].launched
            /\ calls[c].err # "browserClose" ) => browser = 0

----------------------------------------------------------------------------
(* Properties of concurrent convert calls (specification SpecConc) *)

\* the browsers that were launched and are not closed
Running == {b \in Browsers : browserState[b] = "running"}

\* C27: with two convert calls running concurrently on one converter there is
\* never more than one launched, unclosed browser, and this.browser is the
\* handle of every such browser: no browser process is out of the reach of close().
C27_OneBrowser ==
    /\ Cardinality(Running) <= 1
    /\ \A b \in Running : browser = b

\* the call is between createPage and the end of page.pdf
UsesPage(c) == calls[c].pc \in {"setContent", "waitReady", "pdf"}

\* C28: with two PDF convert calls running concurrently on one converter under
\* the isolated policy, the browser of a call that is at setContent, at the
\* readiness wait or at the export is not closed: the page of that call is open.
C28_BrowserNotClosedUnderJob ==
    ~ctorReuse =>
        \A c \in ConcSlots :
            UsesPage(c) =>
                /\ browserState[pageBrowser[calls[c].page]] = "running"
                /\ pageState[calls[c].page] = "open"

----------------------------------------------------------------------------
(* Properties of the console.warn patch (specification SpecWarn) *)

\* cleanup() has been called on every renderer that was constructed
AllCleanedUp ==
    /\ \E i \in Renderers : renderers[i].state = "cleaned"
    /\ \A i \in Renderers : renderers[i].state # "live"

\* C30: once cleanup() has been called on every renderer that was constructed,
\* for any number of renderers and any order of constructions and cleanups,
\* console.warn is the function it was before the first renderer was constructed.
C30_ConsoleWarnRestored == AllCleanedUp => consoleWarn = 0

====
